---- MODULE Spec2Model ----
(***************************************************************************)
(* A model of payments-rs: the webhook broadcast bridge (src/webhook.rs),  *)
(* the Bitvora invoice subscription that reads from it                     *)
(* (src/lightning/bitvora.rs) and the provider webhook verifiers           *)
(* (src/fiat/stripe.rs, src/fiat/revolut.rs).                              *)
(*                                                                         *)
(* Text.  A Rust String / Vec<u8> is a sequence of symbols.  A symbol is a *)
(* TLA+ string standing for a fixed run of bytes: one of the delimiters    *)
(* ",", "=", "." or a run that contains neither "," nor "=".  "<FF>" and   *)
(* "<FE>" are the bytes 0xFF and 0xFE (never valid in UTF-8), "<EFBFBD>"   *)
(* is the UTF-8 encoding of U+FFFD.  Two texts are the same bytes when     *)
(* their symbols concatenate to the same string (Bytes).                   *)
(***************************************************************************)
EXTENDS Integers, Sequences, FiniteSets, TLC

VARIABLES
    \* tokio::sync::broadcast channel behind WebhookBridge.tx
    tail_pos,      \* Tail.pos: position the next accepted message is stored at
    rx_cnt,        \* Tail.rx_cnt: number of live receivers
    buffer,        \* ring of slots, index -> [pos, val]
    rx,            \* receivers handed out by listen(): id -> [live, next]
    \* history kept for the properties
    calls,         \* number of send() calls so far
    last_send,     \* how the last send() call ended
    sent,          \* the accepted messages, in order
    since,         \* receiver id -> number of send() calls made before its listen()
    got,           \* receiver id -> the items its recv() returned, in order
    updates,       \* receiver id -> the InvoiceUpdate items its Bitvora stream emitted
    \* webhook verifiers
    v_pc,          \* "idle" | "delivered" | "done"
    v_provider,    \* which verifier the delivery is for
    v_secret,      \* the secret handed to verify
    v_msg,         \* the WebhookMessage handed to verify
    v_signed,      \* what the provider signed (secret, timestamp, body), if it signed
    v_tampered,    \* which part was changed in transit, "none" if none
    v_result       \* what verify returned

VARIABLES
    \* LndNode::subscribe_invoices
    l_pc,          \* "idle", "subscribed", "failed" (the call returned Err), "ended"
    l_call,        \* the arguments and the lookup result of the call
    l_settle_index,\* settle_index of the InvoiceSubscription sent to the node
    l_in,          \* items the gRPC stream has yielded
    l_out          \* InvoiceUpdates the subscription has emitted

VARIABLES
    \* JsonApi
    a_pc,          \* "idle", "built", "failed" (build_req returned Err), "done"
    a_call,        \* the call: kind, method, path, body, whether a TokenGen is set
    a_log,         \* what build_req and req did, in order
    a_request,     \* the Request built: None or Some([method, url, headers, body])
    a_result       \* the result of the call

VARIABLES
    \* WEBHOOK_BRIDGE and the WebhookBridge values of the process
    k_state,       \* the LazyLock: "incomplete", "running", "complete"
    k_bridge,      \* the value of the LazyLock: 0, or the bridge it holds
    k_made,        \* the bridges made so far, each by who made it
    k_pc,          \* per task: "start", "init", "static", "own"
    k_ref,         \* per task: 0, or the bridge it uses
    k_chan         \* per bridge: the tasks that sent to or listen on its channel

VARIABLES
    \* CurrencyAmount subtraction
    c_pc,          \* "idle", "done"
    c_lhs,         \* self
    c_rhs,         \* rhs
    c_out          \* the Result of self - rhs

VARIABLES
    \* StripeApi::cancel_order
    o_pc,          \* "idle", "pi", "cs", "try_pi", "try_cs", "done"
    o_id,          \* the id given
    o_calls,       \* the provider calls made, in order, each with its result
    o_result       \* the result of cancel_order

VARIABLES
    \* RevolutLineItem builder
    i_pc,          \* "idle", "built", "panicked" (overflow in a debug build)
    i_item,        \* the RevolutLineItem: quantity, unit_price_amount, total_amount,
                   \* discounts, taxes
    i_calls        \* the builder calls made, in order

VARIABLES
    \* LndNode::pay_invoice
    p_pc,          \* "idle", "streaming", "done"
    p_in,          \* what the payment stream has yielded, in order
    p_final,       \* final_result
    p_result       \* the result of pay_invoice

bridge_vars == <<tail_pos, rx_cnt, buffer, rx, calls, last_send, sent, since, got, updates>>
verify_vars == <<v_pc, v_provider, v_secret, v_msg, v_signed, v_tampered, v_result>>
lnd_vars == <<l_pc, l_call, l_settle_index, l_in, l_out>>
api_vars == <<a_pc, a_call, a_log, a_request, a_result>>
singleton_vars == <<k_state, k_bridge, k_made, k_pc, k_ref, k_chan>>
currency_vars == <<c_pc, c_lhs, c_rhs, c_out>>
order_vars == <<o_pc, o_id, o_calls, o_result>>
item_vars == <<i_pc, i_item, i_calls>>
pay_vars == <<p_pc, p_in, p_final, p_result>>
not_bridge_vars == <<verify_vars, lnd_vars, api_vars, singleton_vars, currency_vars, order_vars, item_vars, pay_vars>>
not_verify_vars == <<bridge_vars, lnd_vars, api_vars, singleton_vars, currency_vars, order_vars, item_vars, pay_vars>>
not_lnd_vars == <<bridge_vars, verify_vars, api_vars, singleton_vars, currency_vars, order_vars, item_vars, pay_vars>>
not_api_vars == <<bridge_vars, verify_vars, lnd_vars, singleton_vars, currency_vars, order_vars, item_vars, pay_vars>>
not_singleton_vars == <<bridge_vars, verify_vars, lnd_vars, api_vars, currency_vars, order_vars, item_vars, pay_vars>>
not_currency_vars == <<bridge_vars, verify_vars, lnd_vars, api_vars, singleton_vars, order_vars, item_vars, pay_vars>>
not_order_vars == <<bridge_vars, verify_vars, lnd_vars, api_vars, singleton_vars, currency_vars, item_vars, pay_vars>>
not_item_vars == <<bridge_vars, verify_vars, lnd_vars, api_vars, singleton_vars, currency_vars, order_vars, pay_vars>>
not_pay_vars == <<bridge_vars, verify_vars, lnd_vars, api_vars, singleton_vars, currency_vars, order_vars, item_vars>>
vars == <<bridge_vars, verify_vars, lnd_vars, api_vars, singleton_vars, currency_vars, order_vars, item_vars, pay_vars>>

----------------------------------------------------------------------------
(* Bounds *)

\* The capacity asked of broadcast::channel.  The source asks for 100
\* (webhook.rs:98); the channel is checked at this smaller capacity.
ChannelCapacity == 3
\* receivers handed out by listen() in one behaviour
MaxReceivers == 2

----------------------------------------------------------------------------
(* Text *)

RECURSIVE Bytes(_)
\* The byte string a text stands for.
Bytes(t) == IF t = <<>> THEN "" ELSE Head(t) \o Bytes(Tail(t))

RECURSIVE IndexOf(_, _, _)
\* First index >= i of symbol d in t, or 0.
IndexOf(t, d, i) ==
    IF i > Len(t) THEN 0
    ELSE IF t[i] = d THEN i
    ELSE IndexOf(t, d, i + 1)

RECURSIVE Split(_, _)
\* str::split(d): the pieces of t between the occurrences of d; never empty,
\* an empty text gives one empty piece.
Split(t, d) ==
    LET i == IndexOf(t, d, 1)
    IN  IF i = 0 THEN <<t>>
        ELSE <<SubSeq(t, 1, i - 1)>> \o Split(SubSeq(t, i + 1, Len(t)), d)

RECURSIVE Join(_, _)
\* The pieces joined by d (the inverse of Split).
Join(ps, d) ==
    IF Len(ps) = 0 THEN <<>>
    ELSE IF Len(ps) = 1 THEN ps[1]
    ELSE ps[1] \o <<d>> \o Join(Tail(ps), d)

\* String::from_utf8_lossy on the model's bytes: 0xFF and 0xFE are invalid in
\* every position and each becomes U+FFFD; F0 BF BD followed by a byte that
\* is no continuation byte (as everywhere in the model) is one maximal invalid
\* part and becomes one U+FFFD; every other symbol is valid UTF-8.
Utf8LossySym(s) == IF s \in {"<FF>", "<FE>", "<F0BFBD>"} THEN "<EFBFBD>" ELSE s
Utf8Lossy(t) == [i \in 1..Len(t) |-> Utf8LossySym(t[i])]

\* hex::encode(HMAC-SHA256(key, data)) as an ideal keyed hash: one opaque
\* symbol, equal for two inputs exactly when key and data are the same bytes.
HexHmac(key, data) == "hmac(" \o Bytes(key) \o ";" \o Bytes(data) \o ")"

----------------------------------------------------------------------------
(* WebhookMessage and the messages the HTTP layer publishes *)

\* Option<String>
None == <<>>
Some(x) == <<x>>

\* HashMap::get
HasHeader(msg, name) == name \in DOMAIN msg.headers

WebhookMessage(endpoint, body, headers) ==
    [endpoint |-> endpoint, body |-> body, headers |-> headers]

\* BitvoraNode.webhook_path and BitvoraNode.webhook_secret of the subscribing node
webhook_path == "/webhooks/bitvora"
webhook_secret == <<"bitvora_secret">>

\* A Bitvora webhook body: {"event":E,"data":{"id":..,"lightning_invoice_id":..,"recipient":R}}
BitvoraBody(event, recipient) ==
    << "{\"event\":\"", event,
       "\",\"data\":{\"id\":\"pay_1\",\"lightning_invoice_id\":\"", "inv_1",
       "\",\"recipient\":\"", recipient, "\"}}" >>

\* A message on the Bitvora path, signed by the provider with `secret`.
BitvoraMessage(secret, event, recipient) ==
    LET body == BitvoraBody(event, recipient)
    IN  WebhookMessage(webhook_path, body,
                       "bitvora-signature" :> <<HexHmac(secret, body)>>)

\* A message of another consumer of the bridge.
OtherMessage ==
    WebhookMessage("/webhooks/test", <<"test body">>,
                   "content-type" :> <<"application/json">>)

\* A message whose body and signature are those of a Bitvora webhook, sent
\* to another endpoint.
ForeignBitvoraMessage ==
    [BitvoraMessage(webhook_secret, "deposit.lightning.completed", "lnbc1other")
        EXCEPT !.endpoint = "/webhooks/test"]

\* The messages published to a Bitvora subscription: a settled deposit, a
\* message for another endpoint, one with Bitvora content for another
\* endpoint, an event kind the enum does not know, an undecodable body and a
\* deposit with a foreign signature.
StreamMessages ==
    { BitvoraMessage(webhook_secret, "deposit.lightning.completed", "lnbc1invoice"),
      OtherMessage,
      ForeignBitvoraMessage,
      BitvoraMessage(webhook_secret, "withdrawal.completed", "lnbc1invoice"),
      WebhookMessage(webhook_path, <<"not json">>, "bitvora-signature" :> <<"deadbeef">>),
      WebhookMessage(webhook_path,
                     BitvoraBody("deposit.lightning.completed", "lnbc1invoice"),
                     "bitvora-signature" :> <<"deadbeef">>) }

\* Messages that each lack one of the things a settled deposit has: the
\* node's path, a signature of the body under the node's secret, the event
\* deposit.lightning.completed, a recipient that is an invoice; and two
\* that lack none.
SettleMessages ==
    { BitvoraMessage(webhook_secret, "deposit.lightning.completed", "lnbc1invoice"),
      BitvoraMessage(webhook_secret, "deposit.lightning.completed", "lnbc1other"),
      ForeignBitvoraMessage,
      BitvoraMessage(<<"other_secret">>, "deposit.lightning.completed", "lnbc1invoice"),
      WebhookMessage(webhook_path,
                     BitvoraBody("deposit.lightning.completed", "lnbc1invoice"),
                     "bitvora-signature"
                         :> <<HexHmac(webhook_secret,
                                      BitvoraBody("deposit.lightning.failed", "lnbc1invoice"))>>),
      WebhookMessage(webhook_path,
                     BitvoraBody("deposit.lightning.completed", "lnbc1invoice"),
                     "content-type" :> <<"application/json">>),
      BitvoraMessage(webhook_secret, "deposit.lightning.failed", "lnbc1invoice"),
      BitvoraMessage(webhook_secret, "deposit.lightning.completed", "not-an-invoice") }

\* The messages published in the bridge specification.
BridgeMessages ==
    { OtherMessage,
      BitvoraMessage(webhook_secret, "deposit.lightning.completed", "lnbc1invoice") }

----------------------------------------------------------------------------
(* tokio::sync::broadcast, as WebhookBridge uses it *)

RECURSIVE NextPowerOfTwo(_, _)
\* usize::next_power_of_two: the least power of two >= n, searched from p.
NextPowerOfTwo(n, p) == IF p >= n THEN p ELSE NextPowerOfTwo(n, 2 * p)

\* broadcast::channel(capacity) rounds the capacity up to a power of two: the
\* ring holds BufferLen slots (128 for the 100 of the source).
BufferLen == NextPowerOfTwo(ChannelCapacity, 1)

\* The slot a position lives in (pos & mask).
SlotIndex(pos) == pos % BufferLen

Receivers == 1..MaxReceivers

\* send() calls in one behaviour: one more than the ring holds, so that a
\* receiver that reads nothing is overrun.
MaxSends == BufferLen + 1

\* A slot that holds nothing yet.
NoMessage == WebhookMessage("", <<>>, <<>>)
NoValue == [msg |-> NoMessage, call |-> 0]

\* WebhookBridge::new: the channel is created with one receiver, which is
\* dropped when new() returns; slot i starts at position i - BufferLen.
BridgeInit ==
    /\ tail_pos = 0
    /\ rx_cnt = 0
    /\ buffer = [i \in 0..(BufferLen - 1) |-> [pos |-> i - BufferLen, val |-> NoValue]]
    /\ rx = [r \in Receivers |-> [live |-> FALSE, next |-> 0]]
    /\ calls = 0
    /\ last_send = "none"
    /\ sent = <<>>
    /\ since = [r \in Receivers |-> 0]
    /\ got = [r \in Receivers |-> <<>>]
    /\ updates = [r \in Receivers |-> <<>>]

\* Sender::send with at least one receiver: the value is written at the tail
\* position, whatever the slot held, and the tail advances.
TxSendStore(value) ==
    /\ buffer' = [buffer EXCEPT ![SlotIndex(tail_pos)] = [pos |-> tail_pos, val |-> value]]
    /\ tail_pos' = tail_pos + 1
    /\ sent' = Append(sent, value)
    /\ last_send' = "delivered"

\* Sender::send with no receiver returns Err(SendError); WebhookBridge::send
\* logs a warning and returns.
TxSendNoReceiver ==
    /\ last_send' = "discarded"
    /\ UNCHANGED <<buffer, tail_pos, sent>>

\* Variant of send: a bounded queue that makes the publisher wait while the
\* slowest receiver still has a full ring to read.
send_blocking(message) ==
    /\ calls < MaxSends
    /\ \A r \in Receivers : rx[r].live => tail_pos - rx[r].next < BufferLen
    /\ calls' = calls + 1
    /\ IF rx_cnt = 0
          THEN TxSendNoReceiver
          ELSE TxSendStore([msg |-> message, call |-> calls + 1])
    /\ UNCHANGED <<rx_cnt, rx, since, got, updates>>

\* WebhookBridge::send(message)
send(message) ==
    /\ calls < MaxSends
    /\ calls' = calls + 1
    /\ IF rx_cnt = 0
          THEN TxSendNoReceiver
          ELSE TxSendStore([msg |-> message, call |-> calls + 1])
    /\ UNCHANGED <<rx_cnt, rx, since, got, updates>>

\* Variant of SubscribeNext: a new receiver starts at the oldest retained message.
SubscribeNext_oldest == IF tail_pos > BufferLen THEN tail_pos - BufferLen ELSE 0

\* Sender::subscribe: the position a new receiver reads first.
SubscribeNext == tail_pos

\* WebhookBridge::listen(): a new receiver, the next unused id.
listen ==
    \E r \in Receivers :
        /\ ~rx[r].live
        /\ \A q \in Receivers : q < r => rx[q].live
        /\ rx' = [rx EXCEPT ![r] = [live |-> TRUE, next |-> SubscribeNext]]
        /\ rx_cnt' = rx_cnt + 1
        /\ since' = [since EXCEPT ![r] = calls]
        /\ UNCHANGED <<tail_pos, buffer, calls, last_send, sent, got, updates>>

\* Variant of RecvAt: a receiver that was overrun is moved to the oldest
\* retained message and handed it, with no Lagged error.
RecvAt_silent(next) ==
    LET slot == buffer[SlotIndex(next)]
        oldest == tail_pos - BufferLen
    IN  IF slot.pos = next
            THEN [kind |-> "Ok", val |-> slot.val, missed |-> 0, next |-> next + 1]
        ELSE IF slot.pos + BufferLen = next
            THEN [kind |-> "Empty", val |-> [msg |-> [endpoint |-> "", body |-> <<>>, headers |-> <<>>], call |-> 0],
                  missed |-> 0, next |-> next]
        ELSE [kind |-> "Ok", val |-> buffer[SlotIndex(oldest)].val, missed |-> 0,
              next |-> oldest + 1]

\* Receiver::recv_ref for a receiver whose next position is `next`: what the
\* receive returns and the next position it leaves.
RecvAt(next) ==
    LET slot == buffer[SlotIndex(next)]
        oldest == tail_pos - BufferLen
        missed == oldest - next
    IN  IF slot.pos = next
            THEN [kind |-> "Ok", val |-> slot.val, missed |-> 0, next |-> next + 1]
        ELSE IF slot.pos + BufferLen = next
            THEN [kind |-> "Empty", val |-> NoValue, missed |-> 0, next |-> next]
        ELSE IF missed = 0
            THEN [kind |-> "Ok", val |-> slot.val, missed |-> 0, next |-> next + 1]
        ELSE [kind |-> "Lagged", val |-> NoValue, missed |-> missed, next |-> oldest]

\* Variant of recv_ref: the receiver's position is not advanced past a message.
recv_ref_noadvance(r) == [RecvAt(rx[r].next) EXCEPT !.next = rx[r].next]

\* Receiver::recv_ref on receiver r.
recv_ref(r) == RecvAt(rx[r].next)

----------------------------------------------------------------------------
(* BitvoraNode::subscribe_invoices *)

\* InvoiceUpdate
InvoiceUpdate(type, payment_hash, preimage, external_id, error) ==
    [type |-> type, payment_hash |-> payment_hash, preimage |-> preimage,
     external_id |-> external_id, error |-> error]
InvoiceUpdateError(text) == InvoiceUpdate("Error", "", None, None, text)
InvoiceUpdateSettled(payment_hash, preimage, external_id) ==
    InvoiceUpdate("Settled", payment_hash, preimage, external_id, "")

\* The event names BitvoraWebhookEvent deserializes.
BitvoraWebhookEvent == {"deposit.lightning.completed", "deposit.lightning.failed"}

\* The JSON string contents that occur in the Bitvora bodies of the model.
BitvoraStrings ==
    BitvoraWebhookEvent
        \cup {"withdrawal.completed", "lnbc1invoice", "lnbc1invoicf", "lnbc1other",
              "not-an-invoice"}

\* The bytes of the Bitvora bodies of the model.
BitvoraBodyBytes ==
    [p \in BitvoraStrings \X BitvoraStrings |-> Bytes(BitvoraBody(p[1], p[2]))]

\* serde_json::from_slice::<BitvoraWebhook> on the bodies of the model: a
\* body that is a BitvoraBody parses when its event is a known variant;
\* anything else is an error.
ParseBitvoraWebhook(body) ==
    LET bytes == Bytes(body)
        fits == {p \in BitvoraStrings \X BitvoraStrings : bytes = BitvoraBodyBytes[p]}
        p == CHOOSE q \in fits : TRUE
    IN  IF fits = {}
            THEN [ok |-> FALSE, event |-> "", lightning_invoice_id |-> "",
                  recipient |-> "", err |-> "expected value"]
        ELSE IF p[1] \in BitvoraWebhookEvent
            THEN [ok |-> TRUE, event |-> p[1], lightning_invoice_id |-> "inv_1",
                  recipient |-> p[2], err |-> ""]
        ELSE [ok |-> FALSE, event |-> "", lightning_invoice_id |-> "",
              recipient |-> "", err |-> "unknown variant"]

\* The recipients that parse as a Bolt11Invoice.
Bolt11Invoices == {"lnbc1invoice", "lnbc1other"}
\* hex of Bolt11Invoice::payment_hash()
Bolt11PaymentHash(recipient) == "payment_hash(" \o recipient \o ")"

\* Variant of BitvoraSigMatches: any signature header is taken.
BitvoraSigMatches_present(secret, msg) == HasHeader(msg, "bitvora-signature")

\* Comparison of the computed hex digest with the header (bitvora.rs:178).
BitvoraSigMatches(secret, msg) ==
    Bytes(<<HexHmac(secret, msg.body)>>) = Bytes(msg.headers["bitvora-signature"])

\* verify_webhook(secret, msg)
verify_webhook(secret, msg) ==
    IF ~HasHeader(msg, "bitvora-signature")
        THEN [ok |-> FALSE, err |-> "Missing bitvora-signature header"]
    ELSE IF BitvoraSigMatches(secret, msg)
        THEN [ok |-> TRUE, err |-> ""]
    ELSE [ok |-> FALSE, err |-> "No valid signature found!"]

\* Display of BroadcastStreamRecvError::Lagged(n)
LaggedText(n) == "channel lagged by " \o ToString(n)

\* Variant of BitvoraHandle: a body that does not decode is skipped.
BitvoraHandle_skipundecoded(secret, path, item) ==
    IF item.kind = "Lagged"
        THEN Some(InvoiceUpdateError(LaggedText(item.missed)))
    ELSE LET r == item.val.msg
             body == ParseBitvoraWebhook(r.body)
             verified == verify_webhook(secret, r)
         IN  IF r.endpoint # path THEN None
             ELSE IF ~body.ok THEN None
             ELSE IF ~verified.ok THEN Some(InvoiceUpdateError(verified.err))
             ELSE IF body.event = "deposit.lightning.completed"
                 THEN IF body.recipient \in Bolt11Invoices
                      THEN Some(InvoiceUpdateSettled(Bolt11PaymentHash(body.recipient),
                                                     None, Some(body.lightning_invoice_id)))
                      ELSE Some(InvoiceUpdateError("Failed to parse invoice"))
             ELSE Some(InvoiceUpdateError("Payment failed"))

\* Variant of BitvoraHandle: the endpoint of the message is not looked at.
BitvoraHandle_anypath(secret, path, item) ==
    IF item.kind = "Lagged"
        THEN Some(InvoiceUpdateError(LaggedText(item.missed)))
    ELSE LET r == item.val.msg
             body == ParseBitvoraWebhook(r.body)
             verified == verify_webhook(secret, r)
         IN  IF ~body.ok THEN Some(InvoiceUpdateError(body.err))
             ELSE IF ~verified.ok THEN Some(InvoiceUpdateError(verified.err))
             ELSE IF body.event = "deposit.lightning.completed"
                 THEN IF body.recipient \in Bolt11Invoices
                      THEN Some(InvoiceUpdateSettled(Bolt11PaymentHash(body.recipient),
                                                     None, Some(body.lightning_invoice_id)))
                      ELSE Some(InvoiceUpdateError("Failed to parse invoice"))
             ELSE Some(InvoiceUpdateError("Payment failed"))

\* Variant of BitvoraHandle: the recipient is not parsed as an invoice.
BitvoraHandle_anyrecipient(secret, path, item) ==
    IF item.kind = "Lagged"
        THEN Some(InvoiceUpdateError(LaggedText(item.missed)))
    ELSE LET r == item.val.msg
             body == ParseBitvoraWebhook(r.body)
             verified == verify_webhook(secret, r)
         IN  IF r.endpoint # path THEN None
             ELSE IF ~body.ok THEN Some(InvoiceUpdateError(body.err))
             ELSE IF ~verified.ok THEN Some(InvoiceUpdateError(verified.err))
             ELSE IF body.event = "deposit.lightning.completed"
                 THEN Some(InvoiceUpdateSettled(Bolt11PaymentHash(body.recipient),
                                                None, Some(body.lightning_invoice_id)))
             ELSE Some(InvoiceUpdateError("Payment failed"))

\* The filter_map closure of subscribe_invoices, holding secret and
\* webhook_path, on one item of the BroadcastStream: None (<<>>) or
\* Some(update) (<<update>>).
BitvoraHandle(secret, path, item) ==
    IF item.kind = "Lagged"
        THEN Some(InvoiceUpdateError(LaggedText(item.missed)))
    ELSE LET r == item.val.msg
             body == ParseBitvoraWebhook(r.body)
             verified == verify_webhook(secret, r)
         IN  IF r.endpoint # path THEN None
             ELSE IF ~body.ok THEN Some(InvoiceUpdateError(body.err))
             ELSE IF ~verified.ok THEN Some(InvoiceUpdateError(verified.err))
             ELSE IF body.event = "deposit.lightning.completed"
                 THEN IF body.recipient \in Bolt11Invoices
                      THEN Some(InvoiceUpdateSettled(Bolt11PaymentHash(body.recipient),
                                                     None, Some(body.lightning_invoice_id)))
                      ELSE Some(InvoiceUpdateError("Failed to parse invoice"))
             ELSE Some(InvoiceUpdateError("Payment failed"))

\* The closure of the node of the bridge specification.
BitvoraFilterMap(item) == BitvoraHandle(webhook_secret, webhook_path, item)

\* Variant of recv: the message read is taken out of the ring, as in a work
\* queue, so no other receiver can read it.
recv_consume(r) ==
    LET res == recv_ref(r)
        item == [kind |-> res.kind, val |-> res.val, missed |-> res.missed]
    IN  /\ rx[r].live
        /\ res.kind # "Empty"
        /\ rx' = [rx EXCEPT ![r].next = res.next]
        /\ got' = [got EXCEPT ![r] = Append(@, item)]
        /\ updates' = [updates EXCEPT ![r] = @ \o BitvoraFilterMap(item)]
        /\ buffer' = IF res.kind = "Ok"
                        THEN [buffer EXCEPT ![SlotIndex(rx[r].next)].pos = @ - BufferLen]
                        ELSE buffer
        /\ UNCHANGED <<tail_pos, rx_cnt, calls, last_send, sent, since>>

\* One poll of receiver r's stream that yields an item: Receiver::recv through
\* BroadcastStream, then the filter_map closure.  An empty channel leaves the
\* stream pending.
recv(r) ==
    LET res == recv_ref(r)
        item == [kind |-> res.kind, val |-> res.val, missed |-> res.missed]
    IN  /\ rx[r].live
        /\ res.kind # "Empty"
        /\ rx' = [rx EXCEPT ![r].next = res.next]
        /\ got' = [got EXCEPT ![r] = Append(@, item)]
        /\ updates' = [updates EXCEPT ![r] = @ \o BitvoraFilterMap(item)]
        /\ UNCHANGED <<tail_pos, rx_cnt, buffer, calls, last_send, sent, since>>

----------------------------------------------------------------------------
(* Signed webhook messages: what the providers put on the wire *)

\* Two symbols that differ in exactly one byte. "<EFBFBD>" is U+FFFD;
\* "<EFBFBE>" is U+FFFE; "<F0BFBD>" is the start of a four-byte sequence cut
\* off by the byte that follows it.
ByteSwaps ==
    { {"a", "b"}, {"a", "<FF>"}, {"<FF>", "<FE>"},
      {"<EFBFBD>", "<F0BFBD>"}, {"<EFBFBD>", "<EFBFBE>"},
      {"X", "Y"}, {"0", "1"}, {"t", "u"},
      {"lnbc1invoice", "lnbc1invoicf"} }
DiffersInOneByte(s1, s2) == {s1, s2} \in ByteSwaps
ByteSymbols == UNION ByteSwaps

\* t with the symbol at i replaced.
ReplaceAt(t, i, s) == [t EXCEPT ![i] = s]

\* The secrets, timestamps and bodies of the model. The last byte of a
\* secret and of a timestamp, and the variable part of a body, are symbols
\* of their own.
test_secret == <<"test_secre", "t">>
Secrets == {test_secret, <<"test_secre", "u">>}
Timestamp1 == <<"123456789", "0">>
Timestamps == {Timestamp1, <<"123456789", "1">>}

\* A Stripe event with one field the struct does not know ("note").
StripeEventBody(note) ==
    << "{\"id\":\"evt_1\",\"type\":\"charge.succeeded\",\"data\":{\"object\":{}},\"note\":\"",
       note, "\"}" >>

\* The body {"event":"X"}.
EventBody(x) == << "{\"event\":\"", x, "\"}" >>

NoteSymbols == {"a", "b", "<FF>", "<FE>", "<EFBFBD>", "<F0BFBD>", "<EFBFBE>"}
EventSymbols == {"X", "Y"}

\* Variant of ParseStripeEvent: any JSON object is taken for an event.
ParseStripeEvent_lenient(body) ==
    IF \E n \in NoteSymbols : Bytes(body) = Bytes(StripeEventBody(n))
        THEN [ok |-> TRUE, err |-> ""]
    ELSE IF \E x \in EventSymbols : Bytes(body) = Bytes(EventBody(x))
        THEN [ok |-> TRUE, err |-> ""]
    ELSE [ok |-> FALSE, err |-> "expected value"]

\* serde_json::from_slice::<StripeWebhookEvent>: the fields id, type and
\* data.object are required; the string of an unknown field is skipped
\* without UTF-8 validation; {"event":..} lacks the field id.
ParseStripeEvent(body) ==
    IF \E n \in NoteSymbols : Bytes(body) = Bytes(StripeEventBody(n))
        THEN [ok |-> TRUE, err |-> ""]
    ELSE IF \E x \in EventSymbols : Bytes(body) = Bytes(EventBody(x))
        THEN [ok |-> FALSE, err |-> "missing field id"]
    ELSE [ok |-> FALSE, err |-> "expected value"]

\* The signature a sender computes: hex HMAC-SHA256 of "<timestamp>.<body>".
StripeSign(secret, timestamp, body) == HexHmac(secret, timestamp \o <<".">> \o body)

\* The header "t=<timestamp>,v1=<sig>".
StripeHeader(timestamp, sig) == <<"t", "=">> \o timestamp \o <<",", "v1", "=", sig>>

StripeMessage(body, header) ==
    WebhookMessage("/webhooks/stripe", body, "stripe-signature" :> header)

----------------------------------------------------------------------------
(* StripeWebhookEvent::verify *)

Err(text) == [ok |-> FALSE, err |-> text]

RECURSIVE StripeParseHeader(_, _, _)
\* The loop over the parts of the header: the first '='-separated piece of a
\* part is its key and the second its value (further pieces are not read);
\* the last "t" is the timestamp and every "v1" is a candidate.
StripeParseHeader(parts, timestamp, signatures) ==
    IF parts = <<>>
        THEN [err |-> "", timestamp |-> timestamp, signatures |-> signatures]
    ELSE LET split == Split(Head(parts), "=")
         IN  IF Len(split) < 2
                 THEN [err |-> "Invalid signature format",
                       timestamp |-> None, signatures |-> <<>>]
             ELSE LET key == Bytes(split[1])
                      value == split[2]
                  IN  StripeParseHeader(
                          Tail(parts),
                          IF key = "t" THEN Some(value) ELSE timestamp,
                          IF key = "v1" THEN Append(signatures, value) ELSE signatures)

\* format!("{}.{}", timestamp, String::from_utf8_lossy(&msg.body))
StripeSignedPayload(timestamp, body) == timestamp \o <<".">> \o Utf8Lossy(body)

\* Variant of StripeSigMatch: only the first candidate is compared.
StripeSigMatch_first(signatures, expected_sig) ==
    Len(signatures) > 0 /\ Bytes(signatures[1]) = expected_sig

\* Variant of StripeSigMatch: every candidate must match (true of none).
StripeSigMatch_all(signatures, expected_sig) ==
    \A i \in 1..Len(signatures) : Bytes(signatures[i]) = expected_sig

\* signatures.iter().any(|sig| *sig == expected_sig)
StripeSigMatch(signatures, expected_sig) ==
    \E i \in 1..Len(signatures) : Bytes(signatures[i]) = expected_sig

StripeVerify(secret, msg) ==
    IF ~HasHeader(msg, "stripe-signature")
        THEN Err("Missing Stripe-Signature header")
    ELSE LET parsed == StripeParseHeader(
                           Split(msg.headers["stripe-signature"], ","), None, <<>>)
         IN  IF parsed.err # "" THEN Err(parsed.err)
             ELSE IF parsed.timestamp = None
                 THEN Err("Missing timestamp in signature")
             ELSE LET signed_payload ==
                          StripeSignedPayload(parsed.timestamp[1], msg.body)
                      expected_sig == HexHmac(secret, signed_payload)
                  IN  IF ~StripeSigMatch(parsed.signatures, expected_sig)
                          THEN Err("Invalid signature")
                      ELSE ParseStripeEvent(msg.body)

----------------------------------------------------------------------------
(* RevolutWebhookBody::verify *)

RevolutWebhookEvent == {"ORDER_AUTHORISED", "ORDER_COMPLETED", "ORDER_CANCELLED"}
RevolutStrings == {"ORDER_COMPLETED", "ORDER_REFUNDED", "a", "b"}

\* {"event":"<event>","order_id":"<order_id>"}; merchant_order_ext_ref is
\* optional and left out.
RevolutBody(event, order_id) ==
    << "{\"event\":\"", event, "\",\"order_id\":\"", order_id, "\"}" >>

\* serde_json::from_slice::<RevolutWebhookBody>
ParseRevolutBody(body) ==
    LET fits == {p \in RevolutStrings \X RevolutStrings :
                    Bytes(body) = Bytes(RevolutBody(p[1], p[2]))}
        p == CHOOSE q \in fits : TRUE
    IN  IF fits = {} THEN Err("expected value")
        ELSE IF p[1] \in RevolutWebhookEvent THEN [ok |-> TRUE, err |-> ""]
        ELSE Err("unknown variant")

\* create_revolut_signature without the "<version>=" prefix.
RevolutSign(secret, version, timestamp, body) ==
    HexHmac(secret, version \o <<".">> \o timestamp \o <<".">> \o body)

RevolutHeaders(sig, timestamp) ==
    (IF sig = None THEN <<>> ELSE "revolut-signature" :> sig[1])
    @@ (IF timestamp = None THEN <<>> ELSE "revolut-request-timestamp" :> timestamp[1])

RevolutMessage(body, sig, timestamp) ==
    WebhookMessage("/webhooks/revolut", body, RevolutHeaders(sig, timestamp))

\* Variant of RevolutHeaderError: a missing header is not told apart from a
\* mismatch.
RevolutHeaderError_generic(msg) ==
    IF ~HasHeader(msg, "revolut-signature") \/ ~HasHeader(msg, "revolut-request-timestamp")
        THEN "No valid signature found!"
    ELSE ""

\* The two header lookups, in the order of the code.
RevolutHeaderError(msg) ==
    IF ~HasHeader(msg, "revolut-signature")
        THEN "Missing Revolut-Signature header"
    ELSE IF ~HasHeader(msg, "revolut-request-timestamp")
        THEN "Missing Revolut-Request-Timestamp header"
    ELSE ""

\* Variant of RevolutExpected: every candidate is checked under "v1".
RevolutExpected_v1(secret, version, timestamp, body) ==
    HexHmac(secret, <<"v1", ".">> \o timestamp \o <<".">> \o body)

\* The hex HMAC verify computes for one candidate: over its version, ".",
\* the timestamp header, "." and the raw body.
RevolutExpected(secret, version, timestamp, body) ==
    HexHmac(secret, version \o <<".">> \o timestamp \o <<".">> \o body)

\* Variant of RevolutCheckSignatures: all parts are split before any
\* candidate is compared, as StripeWebhookEvent::verify does.
RevolutCheckSignatures_splitfirst(secret, timestamp, body, parts) ==
    IF \E i \in DOMAIN parts : Len(Split(parts[i], "=")) < 2
        THEN Err("Invalid signature format")
    ELSE IF \E i \in DOMAIN parts :
                RevolutExpected(secret, Split(parts[i], "=")[1], timestamp, body)
                    = Bytes(Split(parts[i], "=")[2])
        THEN ParseRevolutBody(body)
    ELSE Err("No valid signature found!")

RECURSIVE RevolutCheckSignatures(_, _, _, _)
\* The loop over the candidates: the first one whose code equals the HMAC of
\* "<its version>.<timestamp>.<body>" decides; a part without '=' ends the
\* loop with a format error.
RevolutCheckSignatures(secret, timestamp, body, parts) ==
    IF parts = <<>> THEN Err("No valid signature found!")
    ELSE LET sig_split == Split(Head(parts), "=")
         IN  IF Len(sig_split) < 2 THEN Err("Invalid signature format")
             ELSE LET version == sig_split[1]
                      code == sig_split[2]
                  IN  IF RevolutExpected(secret, version, timestamp, body) = Bytes(code)
                          THEN ParseRevolutBody(body)
                      ELSE RevolutCheckSignatures(secret, timestamp, body, Tail(parts))

RevolutVerify(secret, msg) ==
    IF RevolutHeaderError(msg) # "" THEN Err(RevolutHeaderError(msg))
    ELSE RevolutCheckSignatures(
             secret, msg.headers["revolut-request-timestamp"], msg.body,
             Split(msg.headers["revolut-signature"], ","))

----------------------------------------------------------------------------
(* Deliveries to the verifiers *)

MaxParts == 3

\* The sequences of 1..n elements of S.
SeqsUpTo(S, n) == UNION {[1..k -> S] : k \in 1..n}

StripeSendBodies ==
    {StripeEventBody("a"), StripeEventBody("<EFBFBD>"), StripeEventBody("<FF>"), EventBody("X")}
StripeBodies == {StripeEventBody("a"), EventBody("X")}

\* Parts of a stripe-signature header for a body: timestamps, the signature
\* under test_secret and Timestamp1 with several keys, a foreign signature,
\* a part without '=' and a part with a second '='.
StripeParts(body) ==
    LET good == StripeSign(test_secret, Timestamp1, body)
    IN  { <<"t", "=">> \o Timestamp1,
          <<"t", "=", "123456789", "1">>,
          <<"v1", "=", good>>,
          <<"v1", "=", "deadbeef">>,
          <<"v0", "=", good>>,
          <<"junk">>,
          <<"v1", "=", good, "=", "x">> }

RevolutSendBodies == {RevolutBody("ORDER_COMPLETED", "a"), RevolutBody("ORDER_REFUNDED", "a")}

RevolutParts(body) ==
    LET good1 == RevolutSign(test_secret, <<"v1">>, Timestamp1, body)
        good2 == RevolutSign(test_secret, <<"v2">>, Timestamp1, body)
    IN  { <<"v1", "=", good1>>,
          <<"v2", "=", good2>>,
          <<"v2", "=", good1>>,
          <<"v1", "=", "deadbeef">>,
          <<"junk">> }

\* A sender signs body under secret and timestamp; the verifier holds the
\* same secret.
StripeSend(secret, timestamp, body) ==
    /\ v_pc = "idle"
    /\ v_pc' = "signed"
    /\ v_provider' = "stripe"
    /\ v_secret' = secret
    /\ v_msg' = StripeMessage(body, StripeHeader(timestamp, StripeSign(secret, timestamp, body)))
    /\ v_signed' = [secret |-> secret, timestamp |-> timestamp, body |-> body]
    /\ UNCHANGED <<v_tampered, v_result>>

RevolutSend(secret, timestamp, body) ==
    /\ v_pc = "idle"
    /\ v_pc' = "signed"
    /\ v_provider' = "revolut"
    /\ v_secret' = secret
    /\ v_msg' = RevolutMessage(
                    body,
                    Some(<<"v1", "=", RevolutSign(secret, <<"v1">>, timestamp, body)>>),
                    Some(timestamp))
    /\ v_signed' = [secret |-> secret, timestamp |-> timestamp, body |-> body]
    /\ UNCHANGED <<v_tampered, v_result>>

\* One byte of the body changes between signing and verification.
TamperBody ==
    /\ v_pc = "signed"
    /\ \E i \in 1..Len(v_msg.body), s \in ByteSymbols :
          /\ DiffersInOneByte(v_msg.body[i], s)
          /\ v_msg' = [v_msg EXCEPT !.body = ReplaceAt(@, i, s)]
    /\ v_pc' = "tampered"
    /\ v_tampered' = "body"
    /\ UNCHANGED <<v_provider, v_secret, v_signed, v_result>>

\* The verifier's secret differs in one byte from the signing secret.
TamperSecret ==
    /\ v_pc = "signed"
    /\ \E i \in 1..Len(v_secret), s \in ByteSymbols :
          /\ DiffersInOneByte(v_secret[i], s)
          /\ v_secret' = ReplaceAt(v_secret, i, s)
    /\ v_pc' = "tampered"
    /\ v_tampered' = "secret"
    /\ UNCHANGED <<v_provider, v_msg, v_signed, v_result>>

\* One byte of the timestamp changes; the signature stays.
TamperTimestamp ==
    /\ v_pc = "signed"
    /\ \E i \in 1..Len(v_signed.timestamp), s \in ByteSymbols :
          /\ DiffersInOneByte(v_signed.timestamp[i], s)
          /\ LET t == ReplaceAt(v_signed.timestamp, i, s)
             IN  v_msg' =
                   IF v_provider = "stripe"
                       THEN StripeMessage(
                                v_msg.body,
                                StripeHeader(t, StripeSign(v_signed.secret,
                                                           v_signed.timestamp,
                                                           v_signed.body)))
                   ELSE RevolutMessage(
                            v_msg.body,
                            Some(v_msg.headers["revolut-signature"]),
                            Some(t))
    /\ v_pc' = "tampered"
    /\ v_tampered' = "timestamp"
    /\ UNCHANGED <<v_provider, v_secret, v_signed, v_result>>

\* Any message on the Stripe endpoint: no signature header, or one made of
\* up to MaxParts parts.
StripeDeliver ==
    /\ v_pc = "idle"
    /\ v_pc' = "delivered"
    /\ v_provider' = "stripe"
    /\ v_secret' \in Secrets
    /\ \E body \in StripeBodies :
          \/ v_msg' = WebhookMessage("/webhooks/stripe", body, <<>>)
          \/ \E parts \in SeqsUpTo(StripeParts(body), MaxParts) :
                v_msg' = StripeMessage(body, Join(parts, ","))
    /\ UNCHANGED <<v_signed, v_tampered, v_result>>

\* Any message on the Revolut endpoint: each header present or not.
RevolutDeliver ==
    /\ v_pc = "idle"
    /\ v_pc' = "delivered"
    /\ v_provider' = "revolut"
    /\ v_secret' \in Secrets
    /\ \E body \in RevolutSendBodies :
       \E sig \in {None} \cup {Some(Join(parts, ",")) :
                                  parts \in SeqsUpTo(RevolutParts(body), MaxParts)} :
       \E timestamp \in {None} \cup {Some(t) : t \in Timestamps} :
          v_msg' = RevolutMessage(body, sig, timestamp)
    /\ UNCHANGED <<v_signed, v_tampered, v_result>>

StripeVerifyStep ==
    /\ v_pc \in {"signed", "tampered", "delivered"}
    /\ v_provider = "stripe"
    /\ v_result' = StripeVerify(v_secret, v_msg)
    /\ v_pc' = "done"
    /\ UNCHANGED <<v_provider, v_secret, v_msg, v_signed, v_tampered>>

RevolutVerifyStep ==
    /\ v_pc \in {"signed", "tampered", "delivered"}
    /\ v_provider = "revolut"
    /\ v_result' = RevolutVerify(v_secret, v_msg)
    /\ v_pc' = "done"
    /\ UNCHANGED <<v_provider, v_secret, v_msg, v_signed, v_tampered>>

----------------------------------------------------------------------------
(* LndNode::subscribe_invoices *)

MaxItems == 3
MaxSettleIndex == 2

\* The invoice states of the node: three the subscription names and one it
\* does not.
InvoiceStates == {"SETTLED", "CREATED", "CANCELED", "ACCEPTED"}

\* Items of the gRPC stream: Ok(Invoice) or Err(Status).
LndOk(state) ==
    [kind |-> "Ok", r_hash |-> "hash_1", state |-> state, r_preimage |-> "preimage_1",
     payment_request |-> "lnbc1invoice", status |-> ""]
LndErr(status) ==
    [kind |-> "Err", r_hash |-> "", state |-> "", r_preimage |-> "",
     payment_request |-> "", status |-> status]
\* An invoice of another hash, with no preimage and no payment request.
LndOkBare(state) ==
    [kind |-> "Ok", r_hash |-> "hash_2", state |-> state, r_preimage |-> "",
     payment_request |-> "", status |-> ""]
LndItems ==
    {LndOk(st) : st \in InvoiceStates}
    \cup {LndOkBare("SETTLED"), LndOkBare("ACCEPTED")}
    \cup {LndErr("status: Unavailable")}

HexEncode(bytes) == "hex(" \o bytes \o ")"

InvoiceUpdateCreated(payment_hash, payment_request) ==
    [type |-> "Created", payment_hash |-> payment_hash, payment_request |-> payment_request]
InvoiceUpdateCanceled(payment_hash) == [type |-> "Canceled", payment_hash |-> payment_hash]
InvoiceUpdateUnknown(payment_hash) == [type |-> "Unknown", payment_hash |-> payment_hash]

\* Variant of LndMap: a settled invoice without preimage is not reported as
\* settled.
LndMap_needspreimage(i) ==
    IF i.kind = "Ok"
        THEN LET payment_hash == HexEncode(i.r_hash)
             IN  CASE i.state = "SETTLED" /\ i.r_preimage # "" ->
                        InvoiceUpdateSettled(payment_hash, Some(HexEncode(i.r_preimage)), None)
                   [] i.state = "CREATED" ->
                        InvoiceUpdateCreated(payment_hash, i.payment_request)
                   [] i.state = "CANCELED" -> InvoiceUpdateCanceled(payment_hash)
                   [] OTHER -> InvoiceUpdateUnknown(payment_hash)
    ELSE InvoiceUpdateError(i.status)

\* The closure of stream.map.
LndMap(i) ==
    IF i.kind = "Ok"
        THEN LET payment_hash == HexEncode(i.r_hash)
             IN  CASE i.state = "SETTLED" ->
                        InvoiceUpdateSettled(payment_hash, Some(HexEncode(i.r_preimage)), None)
                   [] i.state = "CREATED" ->
                        InvoiceUpdateCreated(payment_hash, i.payment_request)
                   [] i.state = "CANCELED" -> InvoiceUpdateCanceled(payment_hash)
                   [] OTHER -> InvoiceUpdateUnknown(payment_hash)
    ELSE InvoiceUpdateError(i.status)

\* Variant of LndFromSettleIndex: the looked-up invoice is not used.
LndFromSettleIndex_zero(from_payment_hash, lookup) == 0

\* from_settle_index: the settle_index of the looked-up invoice, 0 when the
\* lookup fails or no payment hash is given. lookup is Some(settle_index)
\* for Ok(inv) and None for Err.
LndFromSettleIndex(from_payment_hash, lookup) ==
    IF from_payment_hash # None
        THEN IF lookup # None THEN lookup[1] ELSE 0
    ELSE 0

NoCall == [from_payment_hash |-> None, lookup |-> None]

LndInit ==
    /\ l_pc = "idle"
    /\ l_call = NoCall
    /\ l_settle_index = 0
    /\ l_in = <<>>
    /\ l_out = <<>>

\* subscribe_invoices(from_payment_hash): the lookup (made only with a
\* payment hash) gives lookup; the subscribe RPC succeeds or not.
subscribe_invoices(from_payment_hash, lookup, subscribed) ==
    /\ l_pc = "idle"
    /\ from_payment_hash = None => lookup = None
    /\ l_call' = [from_payment_hash |-> from_payment_hash, lookup |-> lookup]
    /\ l_settle_index' = LndFromSettleIndex(from_payment_hash, lookup)
    /\ l_pc' = IF subscribed THEN "subscribed" ELSE "failed"
    /\ UNCHANGED <<l_in, l_out>>

\* Variant of LndPoll: after an Err item nothing more is emitted.
LndPoll_stopaftererror(i) ==
    /\ l_pc = "subscribed"
    /\ Len(l_in) < MaxItems
    /\ \A k \in 1..Len(l_in) : l_in[k].kind = "Ok"
    /\ l_in' = Append(l_in, i)
    /\ l_out' = Append(l_out, LndMap(i))
    /\ UNCHANGED <<l_pc, l_call, l_settle_index>>

\* The gRPC stream yields item i and the subscription emits its update.
LndPoll(i) ==
    /\ l_pc = "subscribed"
    /\ Len(l_in) < MaxItems
    /\ l_in' = Append(l_in, i)
    /\ l_out' = Append(l_out, LndMap(i))
    /\ UNCHANGED <<l_pc, l_call, l_settle_index>>

\* The gRPC stream ends (yields None): so does the subscription.
LndEnd ==
    /\ l_pc = "subscribed"
    /\ l_pc' = "ended"
    /\ UNCHANGED <<l_call, l_settle_index, l_in, l_out>>

----------------------------------------------------------------------------
(* JsonApi *)

Methods == {"GET", "POST", "PUT"}
Paths == {"/test", "//["}

\* Request bodies (values that implement Serialize) and serde_json::to_string
\* of each: a text, or None for a value that cannot be serialized.
BodyValues == {"json!({key: value})", "json!({test: true})", "map with non-string keys"}
ToJsonString(value) ==
    CASE value = "json!({key: value})" -> Some("{\"key\":\"value\"}")
      [] value = "json!({test: true})" -> Some("{\"test\":true}")
      [] OTHER -> None

\* Response texts and serde_json::from_str of each.
ResponseTexts == {"{\"ok\":true}", "not json", ""}
FromJsonStr(text) == IF text = "{\"ok\":true}" THEN Some("T { ok: true }") ELSE None

\* Response statuses and StatusCode::is_success.
Statuses == {200, 204, 299, 300, 404, 500}
IsSuccess(status) == status \in 200..299
\* Display of StatusCode: the code and its canonical reason.
StatusDisplay(status) ==
    ToString(status) \o " " \o
        CASE status = 200 -> "OK"
          [] status = 204 -> "No Content"
          [] status = 300 -> "Multiple Choices"
          [] status = 404 -> "Not Found"
          [] status = 500 -> "Internal Server Error"
          [] OTHER -> "<unknown status code>"

\* self.base.join(path): the url, or None when the path cannot be joined (a
\* reference with an authority that is no host).
UrlJoin(path) == IF path = "//[" THEN None ELSE Some("https://api.example.com" \o path)

\* What TestTokenGen adds to the request.
TokenHeader == "X-Custom-Token" :> "test123"

ApiRequest(method, url, headers, body) ==
    [method |-> method, url |-> url, headers |-> headers, body |-> body]

NoApiCall ==
    [kind |-> "none", method |-> "", path |-> "", body |-> None, token_gen |-> FALSE,
     token_ok |-> TRUE]

ApiInit ==
    /\ a_pc = "idle"
    /\ a_call = NoApiCall
    /\ a_log = <<>>
    /\ a_request = None
    /\ a_result = [ok |-> FALSE, value |-> None, err |-> <<>>]

\* Variant of BuildSteps: the strategy is run before the body is serialized,
\* on no body.
BuildSteps_signfirst(token_gen, text) ==
    (IF token_gen THEN <<[op |-> "generate_token", body |-> None]>> ELSE <<>>)
    \o (IF text # None THEN <<[op |-> "to_string", body |-> text]>> ELSE <<>>)

\* The steps of build_req on a body that serializes to text (None for no
\* body): serde_json::to_string, then generate_token on that text.
BuildSteps(token_gen, text) ==
    (IF text # None THEN <<[op |-> "to_string", body |-> text]>> ELSE <<>>)
    \o (IF token_gen THEN <<[op |-> "generate_token", body |-> text]>> ELSE <<>>)

\* The errors build_req returns with "?".
JoinError == <<"invalid IPv6 address">>
ToStringError == <<"key must be a string">>
TokenError == <<"token generation failed">>

\* Variant of BuildError: a failure of the strategy is not returned.
BuildError_unsigned(url, body, text, token_gen, token_ok) ==
    IF url = None THEN Some(JoinError)
    ELSE IF body # None /\ text = None THEN Some(ToStringError)
    ELSE None

\* The error build_req returns, None when it returns a Request: the "?" on
\* join, on to_string and on generate_token, in this order.
BuildError(url, body, text, token_gen, token_ok) ==
    IF url = None THEN Some(JoinError)
    ELSE IF body # None /\ text = None THEN Some(ToStringError)
    ELSE IF token_gen /\ ~token_ok THEN Some(TokenError)
    ELSE None

\* build_req at the start of req or req_status, and their "?" on its result.
\* token_ok tells whether the strategy returns Ok.
build_req(kind, method, path, body, token_gen, token_ok) ==
    LET text == IF body = None THEN None ELSE ToJsonString(body[1])
        url == UrlJoin(path)
        error == BuildError(url, body, text, token_gen, token_ok)
        headers == ("Accept" :> "application/json")
                   @@ (IF token_gen THEN TokenHeader ELSE <<>>)
                   @@ (IF body # None
                          THEN "Content-Type" :> "application/json; charset=utf-8"
                          ELSE <<>>)
    IN  /\ a_pc = "idle"
        /\ a_call' = [kind |-> kind, method |-> method, path |-> path, body |-> body,
                      token_gen |-> token_gen, token_ok |-> token_ok]
        /\ a_log' = IF url = None THEN <<>>
                    ELSE IF body # None /\ text = None
                        THEN <<[op |-> "to_string", body |-> None]>>
                    ELSE BuildSteps(token_gen, text)
        /\ IF error # None
              THEN /\ a_request' = None
                   /\ a_result' = [ok |-> FALSE, value |-> None, err |-> error[1]]
                   /\ a_pc' = "failed"
              ELSE /\ a_request' = Some(ApiRequest(method, url[1], headers, text))
                   /\ a_pc' = "built"
                   /\ UNCHANGED a_result

\* The two error messages of req, as the pieces they are formatted from.
DecodeError(path, text) ==
    <<"Failed to parse JSON from ", path, ": ", text, " ", "expected value">>
StatusError(method, path, status, text) ==
    <<method, " ", path, ": ", StatusDisplay(status), ": ", text>>

\* Variant of Respond: an unsuccessful status is not looked at.
Respond_anystatus(kind, method, path, status, text) ==
    IF kind = "req_status"
        THEN [ok |-> TRUE, value |-> Some(status), err |-> <<>>]
    ELSE IF FromJsonStr(text) # None
        THEN [ok |-> TRUE, value |-> FromJsonStr(text), err |-> <<>>]
    ELSE [ok |-> FALSE, value |-> None, err |-> DecodeError(path, text)]

\* The result of req / req_status for a response with status and text.
Respond(kind, method, path, status, text) ==
    IF IsSuccess(status)
        THEN IF kind = "req_status"
                 THEN [ok |-> TRUE, value |-> Some(status), err |-> <<>>]
             ELSE IF FromJsonStr(text) # None
                 THEN [ok |-> TRUE, value |-> FromJsonStr(text), err |-> <<>>]
             ELSE [ok |-> FALSE, value |-> None, err |-> DecodeError(path, text)]
    ELSE [ok |-> FALSE, value |-> None, err |-> StatusError(method, path, status, text)]

\* client.execute(req) sends the request and a response arrives.
execute(status, text) ==
    /\ a_pc = "built"
    /\ a_log' = Append(Append(a_log, [op |-> "execute", body |-> a_request[1].body]),
                       [op |-> "response", status |-> status, text |-> text])
    /\ a_result' = Respond(a_call.kind, a_call.method, a_call.path, status, text)
    /\ a_pc' = "done"
    /\ UNCHANGED <<a_call, a_request>>

\* Errors of the transport, each the Display texts of the error, of its
\* source, of the source of that, and so on (Error::source).
TransportErrors ==
    { <<"builder error">>,
      <<"error sending request", "operation timed out">>,
      <<"error sending request", "client error (Connect)", "dns error">>,
      <<"error sending request", "client error (Connect)", "tls handshake eof">> }

\* The text of the error's source, "None" when it has none.
SourceText(e) == IF Len(e) > 1 THEN e[2] ELSE "None"

\* The error of a call whose client.execute failed with e: req formats a
\* message from e and its source, req_status returns e.
SendError(kind, e) ==
    IF kind = "req"
        THEN <<"Failed to send request: ", e[1], " source=", SourceText(e)>>
        ELSE e

\* client.execute(req) fails with e: no response.
execute_failed(e) ==
    /\ a_pc = "built"
    /\ a_log' = Append(Append(a_log, [op |-> "execute", body |-> a_request[1].body]),
                       [op |-> "transport_error", e |-> e])
    /\ a_result' = [ok |-> FALSE, value |-> None, err |-> SendError(a_call.kind, e)]
    /\ a_pc' = "done"
    /\ UNCHANGED <<a_call, a_request>>

\* client.execute(req) gives a response, and reading its text fails with e.
text_failed(status, e) ==
    /\ a_pc = "built"
    /\ a_log' = a_log \o <<[op |-> "execute", body |-> a_request[1].body],
                           [op |-> "status", status |-> status],
                           [op |-> "transport_error", e |-> e]>>
    /\ a_result' = [ok |-> FALSE, value |-> None, err |-> e]
    /\ a_pc' = "done"
    /\ UNCHANGED <<a_call, a_request>>

----------------------------------------------------------------------------
(* WEBHOOK_BRIDGE: LazyLock<WebhookBridge> *)

MaxTasks == 3
MaxBridges == 3
Tasks == 1..MaxTasks

SingletonInit ==
    /\ k_state = "incomplete"
    /\ k_bridge = 0
    /\ k_made = <<>>
    /\ k_pc = [t \in Tasks |-> "start"]
    /\ k_ref = [t \in Tasks |-> 0]
    /\ k_chan = <<>>

\* Variant of LazyMayInit: a task that finds the initializer running runs it
\* too.
LazyMayInit_racy(state) == state # "complete"

\* LazyLock::force: the task that finds the cell incomplete runs the
\* initializer; a task that finds it running waits for it.
LazyMayInit(state) == state = "incomplete"

NewChannel == [senders |-> {}, listeners |-> {}]

\* First use of WEBHOOK_BRIDGE by task t: it is to run the initializer.
LazyForce(t) ==
    /\ k_pc[t] = "start"
    /\ LazyMayInit(k_state)
    /\ k_state' = "running"
    /\ k_pc' = [k_pc EXCEPT ![t] = "init"]
    /\ UNCHANGED <<k_bridge, k_made, k_ref, k_chan>>

\* The initializer, WebhookBridge::new, returns and the cell is complete.
LazyInit(t) ==
    /\ k_pc[t] = "init"
    /\ k_made' = Append(k_made, "WEBHOOK_BRIDGE")
    /\ k_chan' = Append(k_chan, NewChannel)
    /\ k_bridge' = Len(k_made) + 1
    /\ k_state' = "complete"
    /\ k_ref' = [k_ref EXCEPT ![t] = Len(k_made) + 1]
    /\ k_pc' = [k_pc EXCEPT ![t] = "static"]

\* A use of WEBHOOK_BRIDGE that finds the cell complete.
LazyDeref(t) ==
    /\ k_pc[t] \in {"start", "static"}
    /\ k_state = "complete"
    /\ k_ref' = [k_ref EXCEPT ![t] = k_bridge]
    /\ k_pc' = [k_pc EXCEPT ![t] = "static"]
    /\ UNCHANGED <<k_state, k_bridge, k_made, k_chan>>

\* Task t makes a bridge of its own: WebhookBridge::new or ::default.
WebhookBridgeNew(t) ==
    /\ k_pc[t] = "start"
    /\ Cardinality({i \in DOMAIN k_made : k_made[i] = "new"}) < MaxBridges - 1
    /\ k_made' = Append(k_made, "new")
    /\ k_chan' = Append(k_chan, NewChannel)
    /\ k_ref' = [k_ref EXCEPT ![t] = Len(k_made) + 1]
    /\ k_pc' = [k_pc EXCEPT ![t] = "own"]
    /\ UNCHANGED <<k_state, k_bridge>>

\* Task t publishes on the bridge it uses.
BridgeSend(t) ==
    /\ k_pc[t] \in {"static", "own"}
    /\ k_chan' = [k_chan EXCEPT ![k_ref[t]].senders = @ \cup {t}]
    /\ UNCHANGED <<k_state, k_bridge, k_made, k_pc, k_ref>>

\* Task t subscribes to the bridge it uses.
BridgeListen(t) ==
    /\ k_pc[t] \in {"static", "own"}
    /\ k_chan' = [k_chan EXCEPT ![k_ref[t]].listeners = @ \cup {t}]
    /\ UNCHANGED <<k_state, k_bridge, k_made, k_pc, k_ref>>

----------------------------------------------------------------------------
(* CurrencyAmount *)

\* Width of the amount (u64 in the source, scaled down).
AmountBits == 3
AmountModulus == 2 ^ AmountBits
Amounts == 0..(AmountModulus - 1)
Currencies == {"EUR", "BTC", "USD"}

CurrencyAmount(currency, amount) == <<currency, amount>>
CurrencyAmounts == {CurrencyAmount(c, a) : c \in Currencies, a \in Amounts}

\* Variant of checked_sub: wrapping_sub.
checked_sub_wrapping(a, b) == Some((a - b + AmountModulus) % AmountModulus)

\* u64::checked_sub
checked_sub(a, b) == IF b > a THEN None ELSE Some(a - b)

\* impl Sub for CurrencyAmount
CurrencySub(self, rhs) ==
    IF self[1] # rhs[1]
        THEN [ok |-> FALSE, value |-> None, err |-> "Currency doesnt match"]
    ELSE IF checked_sub(self[2], rhs[2]) = None
        THEN [ok |-> FALSE, value |-> None, err |-> "Subtraction would underflow"]
    ELSE [ok |-> TRUE, value |-> Some(CurrencyAmount(self[1], checked_sub(self[2], rhs[2])[1])),
          err |-> ""]

CurrencyInit ==
    /\ c_pc = "idle"
    /\ c_lhs = CurrencyAmount("EUR", 0)
    /\ c_rhs = CurrencyAmount("EUR", 0)
    /\ c_out = [ok |-> FALSE, value |-> None, err |-> ""]

\* self - rhs
sub(self, rhs) ==
    /\ c_pc = "idle"
    /\ c_lhs' = self
    /\ c_rhs' = rhs
    /\ c_out' = CurrencySub(self, rhs)
    /\ c_pc' = "done"

----------------------------------------------------------------------------
(* StripeApi::cancel_order *)

\* Ids, as their characters.
OrderIds ==
    { <<"p", "i", "_", "1">>, <<"p", "i", "_">>, <<"c", "s", "_", "1">>, <<"c", "s", "_">>,
      <<>>, <<"p", "i">>, <<"c", "s">>, <<"x", "p", "i", "_", "1">>, <<"P", "I", "_", "1">>,
      <<"c", "s", "-", "1">>, <<"o", "r", "d", "_", "1">>, <<"_", "p", "i", "_">> }

\* str::starts_with
StartsWith(text, prefix) ==
    Len(text) >= Len(prefix) /\ SubSeq(text, 1, Len(prefix)) = prefix

\* Results of a provider call: Ok, or one of the errors of post_empty.
ProviderResults ==
    { [ok |-> TRUE, err |-> ""],
      [ok |-> FALSE, err |-> "404 Not Found"],
      [ok |-> FALSE, err |-> "error sending request"],
      [ok |-> FALSE, err |-> "expected value"] }

OrderInit ==
    /\ o_pc = "idle"
    /\ o_id = <<>>
    /\ o_calls = <<>>
    /\ o_result = [ok |-> FALSE, err |-> "none"]

\* Variant of OrderBranch: an id is never taken for a checkout session.
OrderBranch_nosession(id) ==
    IF StartsWith(id, <<"p", "i", "_">>) THEN "pi" ELSE "try_pi"

\* The branch cancel_order takes for an id.
OrderBranch(id) ==
    IF StartsWith(id, <<"p", "i", "_">>) THEN "pi"
    ELSE IF StartsWith(id, <<"c", "s", "_">>) THEN "cs"
    ELSE "try_pi"

\* cancel_order(id) is called and polled.
cancel_order(id) ==
    /\ o_pc = "idle"
    /\ o_id' = id
    /\ o_pc' = OrderBranch(id)
    /\ UNCHANGED <<o_calls, o_result>>

\* s.cancel_payment_intent(&id) returns rsp.
cancel_payment_intent(rsp) ==
    /\ o_pc \in {"pi", "try_pi"}
    /\ o_calls' = Append(o_calls, [op |-> "cancel_payment_intent", id |-> o_id, rsp |-> rsp])
    /\ IF rsp.ok
          THEN o_pc' = "done" /\ o_result' = [ok |-> TRUE, err |-> ""]
       ELSE IF o_pc = "pi"
          THEN o_pc' = "done" /\ o_result' = [ok |-> FALSE, err |-> rsp.err]
       ELSE o_pc' = "try_cs" /\ UNCHANGED o_result
    /\ UNCHANGED o_id

\* s.expire_checkout_session(&id) returns rsp.
expire_checkout_session(rsp) ==
    /\ o_pc \in {"cs", "try_cs"}
    /\ o_calls' = Append(o_calls, [op |-> "expire_checkout_session", id |-> o_id, rsp |-> rsp])
    /\ o_pc' = "done"
    /\ o_result' = IF rsp.ok THEN [ok |-> TRUE, err |-> ""] ELSE [ok |-> FALSE, err |-> rsp.err]
    /\ UNCHANGED o_id

----------------------------------------------------------------------------
(* RevolutLineItem *)

\* Builder calls after simple() in one behaviour, and the length of a list
\* of discounts or taxes.
MaxCalls == 3
MaxListLen == 2

Quantities == 0..3
UnitPrices == 0..3
\* Amounts of a discount or a tax.
ItemAmounts == {1, 3}
AmountLists == {<<>>} \cup SeqsUpTo(ItemAmounts, MaxListLen)

RECURSIVE SumSeq(_)
\* iter().map(|d| d.amount).sum(), as a number
SumSeq(q) == IF q = <<>> THEN 0 ELSE Head(q) + SumSeq(Tail(q))

\* u64::saturating_sub
saturating_sub(a, b) == IF b > a THEN 0 ELSE a - b

\* A u64 result n of +, * or sum: itself when it fits; when it does not, a
\* debug build panics and a release build wraps.
Overflows(n) == n >= AmountModulus
Wrapped(n) == n % AmountModulus

ItemInit ==
    /\ i_pc = "idle"
    /\ i_item = [quantity |-> 0, unit_price_amount |-> 0, total_amount |-> 0,
                 discounts |-> None, taxes |-> None]
    /\ i_calls = <<>>

\* RevolutLineItem::simple(name, quantity, unit_price_amount)
simple(quantity, unit_price_amount, panics) ==
    LET total == quantity * unit_price_amount
    IN  /\ i_pc = "idle"
        /\ i_calls' = <<"simple">>
        /\ IF Overflows(total) /\ panics
              THEN i_pc' = "panicked" /\ UNCHANGED i_item
              ELSE /\ i_pc' = "built"
                   /\ i_item' = [quantity |-> quantity, unit_price_amount |-> unit_price_amount,
                                  total_amount |-> Wrapped(total),
                                  discounts |-> None, taxes |-> None]

\* with_discounts(discounts): the total is recomputed from quantity and
\* unit price.
with_discounts(discounts, panics) ==
    LET discount_total == SumSeq(discounts)
        product == i_item.quantity * i_item.unit_price_amount
    IN  /\ i_pc = "built"
        /\ Len(i_calls) <= MaxCalls
        /\ i_calls' = Append(i_calls, "with_discounts")
        /\ IF (Overflows(discount_total) \/ Overflows(product)) /\ panics
              THEN i_pc' = "panicked" /\ UNCHANGED i_item
              ELSE /\ i_item' = [i_item EXCEPT
                                    !.total_amount =
                                        saturating_sub(Wrapped(product), Wrapped(discount_total)),
                                    !.discounts = Some(discounts)]
                   /\ UNCHANGED i_pc

\* with_taxes(taxes): the sum of the taxes is added to the total.
with_taxes(taxes, panics) ==
    LET tax_total == SumSeq(taxes)
        total == i_item.total_amount + Wrapped(tax_total)
    IN  /\ i_pc = "built"
        /\ Len(i_calls) <= MaxCalls
        /\ i_calls' = Append(i_calls, "with_taxes")
        /\ IF (Overflows(tax_total) \/ Overflows(total)) /\ panics
              THEN i_pc' = "panicked" /\ UNCHANGED i_item
              ELSE /\ i_item' = [i_item EXCEPT !.total_amount = Wrapped(total),
                                                !.taxes = Some(taxes)]
                   /\ UNCHANGED i_pc

----------------------------------------------------------------------------
(* LndNode::pay_invoice *)

\* Updates of the payment stream in one behaviour.
MaxUpdates == 3

\* Payment.status: UNKNOWN, IN_FLIGHT, SUCCEEDED, FAILED.
PaymentStatuses == 0..3
SUCCEEDED == 2

\* An update of the payment stream.
Payment(status) ==
    [status |-> status, payment_hash |-> "hash_1", payment_preimage |-> "preimage_1",
     failure_reason |-> IF status = 3 THEN "FAILURE_REASON_NO_ROUTE" ELSE "FAILURE_REASON_NONE"]

PayInit ==
    /\ p_pc = "idle"
    /\ p_in = <<>>
    /\ p_final = None
    /\ p_result = [ok |-> FALSE, value |-> None, err |-> "none"]

\* pay_invoice(req) up to the stream: send_payment_v2 succeeds or not.
pay_invoice(started) ==
    /\ p_pc = "idle"
    /\ IF started
          THEN p_pc' = "streaming" /\ UNCHANGED p_result
          ELSE /\ p_pc' = "done"
               /\ p_result' = [ok |-> FALSE, value |-> None, err |-> "status: Unavailable"]
    /\ UNCHANGED <<p_in, p_final>>

\* Variant of FinalResult: an update that succeeded is kept.
FinalResult_keepsucceeded(final_result, update) ==
    IF final_result # None /\ final_result[1].status = SUCCEEDED
        THEN final_result
        ELSE Some(update)

\* The body of the while loop: final_result = Some(update).
FinalResult(final_result, update) == Some(update)

\* stream.message() gives Ok(Some(update)).
PayUpdate(update) ==
    /\ p_pc = "streaming"
    /\ Len(p_in) < MaxUpdates
    /\ p_in' = Append(p_in, [kind |-> "Ok", update |-> update])
    /\ p_final' = FinalResult(p_final, update)
    /\ UNCHANGED <<p_pc, p_result>>

\* stream.message() gives Err(status): pay_invoice returns it.
PayStreamError ==
    /\ p_pc = "streaming"
    /\ p_in' = Append(p_in, [kind |-> "Err", update |-> Payment(0)])
    /\ p_result' = [ok |-> FALSE, value |-> None, err |-> "status: Unavailable"]
    /\ p_pc' = "done"
    /\ UNCHANGED p_final

\* stream.message() gives Ok(None): the loop ends and the last update decides.
PayStreamEnd ==
    /\ p_pc = "streaming"
    /\ p_result' =
          IF p_final = None
              THEN [ok |-> FALSE, value |-> None, err |-> "No payment result received"]
          ELSE IF p_final[1].status # SUCCEEDED
              THEN [ok |-> FALSE, value |-> None,
                    err |-> "Payment failed: " \o p_final[1].failure_reason]
          ELSE [ok |-> TRUE,
                value |-> Some([payment_hash |-> HexEncode(p_final[1].payment_hash),
                                payment_preimage |->
                                    Some(HexEncode(p_final[1].payment_preimage))]),
                err |-> ""]
    /\ p_pc' = "done"
    /\ UNCHANGED <<p_in, p_final>>

----------------------------------------------------------------------------
(* Specifications *)

NoResult == [ok |-> FALSE, err |-> "none"]
NoSigned == [secret |-> <<>>, timestamp |-> <<>>, body |-> <<>>]

VerifyInit ==
    /\ v_pc = "idle"
    /\ v_provider = "none"
    /\ v_secret = <<>>
    /\ v_msg = NoMessage
    /\ v_signed = NoSigned
    /\ v_tampered = "none"
    /\ v_result = NoResult

Init == BridgeInit /\ VerifyInit /\ LndInit /\ ApiInit /\ SingletonInit /\ CurrencyInit /\ OrderInit /\ ItemInit /\ PayInit

Next ==
    \/ \E m \in BridgeMessages : send(m) /\ UNCHANGED not_bridge_vars
    \/ listen /\ UNCHANGED not_bridge_vars
    \/ \E r \in Receivers : recv(r) /\ UNCHANGED not_bridge_vars

Spec == Init /\ [][Next]_vars

BitvoraSendBodies ==
    {BitvoraBody("deposit.lightning.completed", "lnbc1invoice"),
     BitvoraBody("withdrawal.completed", "lnbc1invoice")}

BitvoraHeaders(sig) == IF sig = None THEN <<>> ELSE "bitvora-signature" :> sig[1]

\* Bitvora signs the raw body; the node holds the same secret.
BitvoraSend(secret, body) ==
    /\ v_pc = "idle"
    /\ v_pc' = "signed"
    /\ v_provider' = "bitvora"
    /\ v_secret' = secret
    /\ v_msg' = WebhookMessage(webhook_path, body,
                               BitvoraHeaders(Some(<<HexHmac(secret, body)>>)))
    /\ v_signed' = [secret |-> secret, timestamp |-> <<>>, body |-> body]
    /\ UNCHANGED <<v_tampered, v_result>>

\* Any message on the Bitvora path: no signature header, the signature of
\* the body or of another body under test_secret, or a foreign one.
BitvoraDeliver ==
    /\ v_pc = "idle"
    /\ v_pc' = "delivered"
    /\ v_provider' = "bitvora"
    /\ v_secret' \in Secrets
    /\ \E body \in BitvoraSendBodies \cup {<<"not json">>},
          signed \in BitvoraSendBodies \cup {<<"not json">>} :
       \E sig \in {None, Some(<<HexHmac(test_secret, signed)>>), Some(<<"deadbeef">>),
                    Some(<<>>)} :
          v_msg' = WebhookMessage(webhook_path, body, BitvoraHeaders(sig))
    /\ UNCHANGED <<v_signed, v_tampered, v_result>>

BitvoraVerifyStep ==
    /\ v_pc \in {"signed", "tampered", "delivered"}
    /\ v_provider = "bitvora"
    /\ v_result' = verify_webhook(v_secret, v_msg)
    /\ v_pc' = "done"
    /\ UNCHANGED <<v_provider, v_secret, v_msg, v_signed, v_tampered>>

\* The outcome of the closure as a result: Settled is success, Error carries
\* its text.
UpdateResult(update) ==
    IF update = None THEN [ok |-> FALSE, err |-> "none"]
    ELSE [ok |-> update[1].type = "Settled", err |-> update[1].error]

\* The subscription of a node that holds v_secret handles the message.
BitvoraHandleStep ==
    /\ v_pc \in {"signed", "tampered", "delivered"}
    /\ v_provider = "bitvora"
    /\ v_result' = UpdateResult(
                       BitvoraHandle(v_secret, webhook_path,
                                     [kind |-> "Ok", val |-> [msg |-> v_msg, call |-> 0],
                                      missed |-> 0]))
    /\ v_pc' = "handled"
    /\ UNCHANGED <<v_provider, v_secret, v_msg, v_signed, v_tampered>>

\* One subscription: subscribe_invoices attaches its receiver, then messages
\* are published and the stream is polled.
StreamNext ==
    \/ (rx_cnt = 0 /\ listen) /\ UNCHANGED not_bridge_vars
    \/ (rx_cnt = 1 /\ \E m \in StreamMessages : send(m)) /\ UNCHANGED not_bridge_vars
    \/ recv(1) /\ UNCHANGED not_bridge_vars

StreamSpec == Init /\ [][StreamNext]_vars

\* One subscription, fed with deposits and near-deposits.
SettleNext ==
    \/ (rx_cnt = 0 /\ listen) /\ UNCHANGED not_bridge_vars
    \/ (rx_cnt = 1 /\ \E m \in SettleMessages : send(m)) /\ UNCHANGED not_bridge_vars
    \/ recv(1) /\ UNCHANGED not_bridge_vars

SettleSpec == Init /\ [][SettleNext]_vars

PaymentHashes == {None, Some("hash_1")}
Lookups == {None} \cup {Some(n) : n \in 0..MaxSettleIndex}

LndNext ==
    \/ \E ph \in PaymentHashes, lookup \in Lookups, subscribed \in BOOLEAN :
          subscribe_invoices(ph, lookup, subscribed) /\ UNCHANGED not_lnd_vars
    \/ \E i \in LndItems : LndPoll(i) /\ UNCHANGED not_lnd_vars
    \/ LndEnd /\ UNCHANGED not_lnd_vars

LndSpec == Init /\ [][LndNext]_vars

\* One invoice subscription, of either kind: a Bitvora node (push, fed by
\* the bridge) or an LND node (pull, fed by its gRPC stream).
SubscriptionNext ==
    \/ (l_pc = "idle" /\ rx_cnt = 0 /\ listen) /\ UNCHANGED not_bridge_vars
    \/ (rx_cnt = 1 /\ \E m \in StreamMessages : send(m)) /\ UNCHANGED not_bridge_vars
    \/ recv(1) /\ UNCHANGED not_bridge_vars
    \/ \E ph \in PaymentHashes, lookup \in Lookups, subscribed \in BOOLEAN :
          (rx_cnt = 0 /\ subscribe_invoices(ph, lookup, subscribed))
              /\ UNCHANGED not_lnd_vars
    \/ \E i \in LndItems : LndPoll(i) /\ UNCHANGED not_lnd_vars
    \/ LndEnd /\ UNCHANGED not_lnd_vars

SubscriptionSpec == Init /\ [][SubscriptionNext]_vars

ApiNext ==
    \/ \E kind \in {"req", "req_status"}, method \in Methods, path \in Paths,
          body \in {None} \cup {Some(v) : v \in BodyValues},
          token_gen \in BOOLEAN, token_ok \in BOOLEAN :
          build_req(kind, method, path, body, token_gen, token_ok)
              /\ UNCHANGED not_api_vars
    \/ \E status \in Statuses, text \in ResponseTexts :
          execute(status, text) /\ UNCHANGED not_api_vars
    \/ \E e \in TransportErrors : execute_failed(e) /\ UNCHANGED not_api_vars
    \/ \E status \in Statuses, e \in TransportErrors :
          text_failed(status, e) /\ UNCHANGED not_api_vars

ApiSpec == Init /\ [][ApiNext]_vars

SingletonNext ==
    \E t \in Tasks :
        \/ LazyForce(t) /\ UNCHANGED not_singleton_vars
        \/ LazyInit(t) /\ UNCHANGED not_singleton_vars
        \/ LazyDeref(t) /\ UNCHANGED not_singleton_vars
        \/ WebhookBridgeNew(t) /\ UNCHANGED not_singleton_vars
        \/ BridgeSend(t) /\ UNCHANGED not_singleton_vars
        \/ BridgeListen(t) /\ UNCHANGED not_singleton_vars

SingletonSpec == Init /\ [][SingletonNext]_vars

CurrencyNext ==
    \E self \in CurrencyAmounts, rhs \in CurrencyAmounts :
        sub(self, rhs) /\ UNCHANGED not_currency_vars

CurrencySpec == Init /\ [][CurrencyNext]_vars

OrderNext ==
    \/ \E id \in OrderIds : cancel_order(id) /\ UNCHANGED not_order_vars
    \/ \E rsp \in ProviderResults : cancel_payment_intent(rsp) /\ UNCHANGED not_order_vars
    \/ \E rsp \in ProviderResults : expire_checkout_session(rsp) /\ UNCHANGED not_order_vars

OrderSpec == Init /\ [][OrderNext]_vars

ItemNext ==
    \/ \E q \in Quantities, p \in UnitPrices, panics \in BOOLEAN :
          simple(q, p, panics) /\ UNCHANGED not_item_vars
    \/ \E discounts \in AmountLists, panics \in BOOLEAN :
          with_discounts(discounts, panics) /\ UNCHANGED not_item_vars
    \/ \E taxes \in AmountLists, panics \in BOOLEAN :
          with_taxes(taxes, panics) /\ UNCHANGED not_item_vars

ItemSpec == Init /\ [][ItemNext]_vars

PayNext ==
    \/ \E started \in BOOLEAN : pay_invoice(started) /\ UNCHANGED not_pay_vars
    \/ \E status \in PaymentStatuses : PayUpdate(Payment(status)) /\ UNCHANGED not_pay_vars
    \/ PayStreamError /\ UNCHANGED not_pay_vars
    \/ PayStreamEnd /\ UNCHANGED not_pay_vars

PaySpec == Init /\ [][PayNext]_vars

VerifyNext ==
    \/ \E secret \in Secrets, timestamp \in Timestamps, body \in StripeSendBodies :
          StripeSend(secret, timestamp, body) /\ UNCHANGED not_verify_vars
    \/ \E secret \in Secrets, timestamp \in Timestamps, body \in RevolutSendBodies :
          RevolutSend(secret, timestamp, body) /\ UNCHANGED not_verify_vars
    \/ TamperBody /\ UNCHANGED not_verify_vars
    \/ TamperSecret /\ UNCHANGED not_verify_vars
    \/ TamperTimestamp /\ UNCHANGED not_verify_vars
    \/ StripeDeliver /\ UNCHANGED not_verify_vars
    \/ RevolutDeliver /\ UNCHANGED not_verify_vars
    \/ StripeVerifyStep /\ UNCHANGED not_verify_vars
    \/ RevolutVerifyStep /\ UNCHANGED not_verify_vars
    \/ \E secret \in Secrets, body \in BitvoraSendBodies :
          BitvoraSend(secret, body) /\ UNCHANGED not_verify_vars
    \/ BitvoraDeliver /\ UNCHANGED not_verify_vars
    \/ BitvoraVerifyStep /\ UNCHANGED not_verify_vars
    \/ BitvoraHandleStep /\ UNCHANGED not_verify_vars

VerifySpec == Init /\ [][VerifyNext]_vars

----------------------------------------------------------------------------
(* Properties of the bridge *)

\* The accepted messages whose send() call came after receiver r's listen().
After(r) == SelectSeq(sent, LAMBDA v : v.call > since[r])

OkItem(v) == [kind |-> "Ok", val |-> v, missed |-> 0]

RECURSIVE Consumed(_)
\* How many messages a run of received items accounts for: one for each
\* message, `missed` for each Lagged error.
Consumed(items) ==
    IF items = <<>> THEN 0
    ELSE (IF Head(items).kind = "Ok" THEN 1 ELSE Head(items).missed) + Consumed(Tail(items))

\* Receiver r has read everything there is to read.
Drained(r) == rx[r].live /\ recv_ref(r).kind = "Empty"

\* C1: a receiver never yields a message whose send() call was made before
\* its listen() call; right after a listen() that follows N sends the
\* receiver has nothing to read.
C1_NoReplay ==
    \A r \in Receivers :
        /\ \A i \in 1..Len(got[r]) :
              got[r][i].kind = "Ok" => got[r][i].val.call > since[r]
        /\ (rx[r].live /\ calls = since[r]) => (got[r] = <<>> /\ recv_ref(r).kind = "Empty")

\* A receiver that attached after an accepted message was published has read
\* a later message.
C1_Witness ==
    \E r \in Receivers :
        /\ rx[r].live
        /\ Len(sent) > 0 /\ sent[1].call <= since[r]
        /\ Len(got[r]) > 0

\* C2: when at most ChannelCapacity messages were sent after receiver r's
\* listen(), r yields those messages, unchanged, once each and in send order:
\* what it has read is a prefix of them, and all of them once it has drained.
C2_ExactlyOnceInOrder ==
    \A r \in Receivers :
        Len(After(r)) <= ChannelCapacity =>
            /\ Len(got[r]) <= Len(After(r))
            /\ \A i \in 1..Len(got[r]) : got[r][i] = OkItem(After(r)[i])
            /\ Drained(r) => Len(got[r]) = Len(After(r))

\* A receiver has read ChannelCapacity messages, not all alike.
C2_Witness ==
    \E r \in Receivers :
        /\ Drained(r)
        /\ Len(After(r)) = ChannelCapacity
        /\ Len(got[r]) = ChannelCapacity
        /\ \E i, j \in 1..Len(got[r]) : got[r][i].val.msg # got[r][j].val.msg

\* The received items of r account for the messages sent after its listen(),
\* in order: each message read is the next one after those read or reported lost.
InOrderWithLagReported(r) ==
    \A i \in 1..Len(got[r]) :
        LET before == Consumed(SubSeq(got[r], 1, i - 1))
        IN  IF got[r][i].kind = "Ok"
                THEN /\ before + 1 <= Len(After(r))
                     /\ got[r][i].val = After(r)[before + 1]
                ELSE /\ got[r][i].missed > 0
                     /\ before + got[r][i].missed <= Len(After(r))

LaggedCount(r) == Cardinality({i \in 1..Len(got[r]) : got[r][i].kind = "Lagged"})
LagErrorCount(r) ==
    Cardinality({i \in 1..Len(updates[r]) :
                    /\ updates[r][i].type = "Error"
                    /\ \E n \in 1..MaxSends : updates[r][i].error = LaggedText(n)})

C4_SendNeverBlocksOrFails ==
    /\ last_send \in {"none", "delivered", "discarded"}
    /\ calls < MaxSends => \A m \in BridgeMessages : ENABLED send(m)
    /\ rx_cnt < MaxReceivers => ENABLED listen
    /\ last_send = "discarded" =>
          /\ \A i \in DOMAIN buffer : buffer[i].val.call # calls
          /\ \A i \in 1..Len(sent) : sent[i].call # calls
    /\ last_send = "delivered" => (Len(sent) > 0 /\ sent[Len(sent)].call = calls)

\* A message was discarded for want of a receiver, and a later message was
\* sent past a receiver that has more than ChannelCapacity messages unread.
C4_Witness ==
    /\ Len(sent) > 0 /\ sent[1].call > 1
    /\ last_send = "delivered"
    /\ \E r \in Receivers : rx[r].live /\ tail_pos - rx[r].next > ChannelCapacity

GotAllButReportedLost(r) ==
    Drained(r) => (Consumed(got[r]) = Len(After(r)) /\ InOrderWithLagReported(r))

----------------------------------------------------------------------------
(* Properties of the signature verifiers *)

StripeDone == v_pc = "done" /\ v_provider = "stripe"
RevolutDone == v_pc = "done" /\ v_provider = "revolut"

\* A part of a signature header that is a key=value pair, its key and value.
IsPair(part) == Len(Split(part, "=")) >= 2
PairKey(part) == Bytes(Split(part, "=")[1])
PairValue(part) == Bytes(Split(part, "=")[2])

\* The parts of the stripe-signature header of v_msg (which must have one).
StripeHeaderParts == Split(v_msg.headers["stripe-signature"], ",")
StripePairs(key) ==
    {i \in 1..Len(StripeHeaderParts) :
        IsPair(StripeHeaderParts[i]) /\ PairKey(StripeHeaderParts[i]) = key}
V1Candidates == {PairValue(StripeHeaderParts[i]) : i \in StripePairs("v1")}
LastTimestamp ==
    LET i == CHOOSE j \in StripePairs("t") : \A k \in StripePairs("t") : k <= j
    IN  Split(StripeHeaderParts[i], "=")[2]

\* The hex HMAC verify computes for v_msg.
StripeComputed == HexHmac(v_secret, StripeSignedPayload(LastTimestamp, v_msg.body))

\* C6, first sentence: verify succeeds for a message as its sender signed it.
C6_SignedVerifies ==
    (StripeDone /\ v_signed # NoSigned /\ v_tampered = "none") => v_result.ok

\* C6, second sentence: if the body, the timestamp or the secret differs in
\* one byte from what was signed, StripeWebhookEvent::verify fails.
C6_TamperedFails ==
    (StripeDone /\ v_signed # NoSigned /\ v_tampered # "none") => ~v_result.ok

\* The message and secret of the scenario of C7 with v1 = sig.
C7_Scenario(body, sig) ==
    /\ StripeDone
    /\ v_secret = test_secret
    /\ Bytes(v_msg.body) = Bytes(body)
    /\ HasHeader(v_msg, "stripe-signature")
    /\ Bytes(v_msg.headers["stripe-signature"]) = Bytes(StripeHeader(<<"1234567890">>, sig))
C7_Good(body) == HexHmac(test_secret, <<"1234567890", ".">> \o body)

\* C7 as stated: with secret 'test_secret', timestamp '1234567890' and body
\* {"event":"X"}, verify succeeds for v1 = the hex HMAC of
\* '1234567890.{"event":"X"}' and fails for v1=deadbeef.
C7_Original ==
    /\ C7_Scenario(EventBody("X"), C7_Good(EventBody("X"))) => v_result.ok
    /\ C7_Scenario(EventBody("X"), "deadbeef") => ~v_result.ok

\* C7: in that scenario the signature is accepted but verify returns the JSON
\* decoding error, because {"event":"X"} is no StripeWebhookEvent; with a body
\* that is a Stripe event it succeeds; v1=deadbeef gives "Invalid signature".
C7_ScenarioDecodeError ==
    /\ C7_Scenario(EventBody("X"), C7_Good(EventBody("X")))
          => v_result = Err("missing field id")
    /\ C7_Scenario(StripeEventBody("a"), C7_Good(StripeEventBody("a"))) => v_result.ok
    /\ C7_Scenario(EventBody("X"), "deadbeef") => v_result = Err("Invalid signature")

\* verify has run on the message of the scenario, correctly signed.
C7_Witness == C7_Scenario(EventBody("X"), C7_Good(EventBody("X")))

\* verify has run on a message whose header has a t pair.
C8_Case == StripeDone /\ HasHeader(v_msg, "stripe-signature") /\ StripePairs("t") # {}

\* C8 as stated: the message is accepted if the computed hex HMAC equals any
\* one of the v1 candidates and rejected only if it equals none.
C8_Original == C8_Case => (v_result.ok <=> StripeComputed \in V1Candidates)

\* C8: when every part of the header is a key=value pair, the message is
\* accepted exactly if the computed hex HMAC equals some v1 candidate, at any
\* position, and the body decodes as a Stripe event; it is rejected with
\* "Invalid signature" exactly if the HMAC equals none. A part without '='
\* rejects the message whatever the candidates are.
C8_AnyCandidate ==
    C8_Case =>
        IF \A i \in 1..Len(StripeHeaderParts) : IsPair(StripeHeaderParts[i])
            THEN /\ v_result.ok <=> (/\ StripeComputed \in V1Candidates
                                     /\ ParseStripeEvent(v_msg.body).ok)
                 /\ v_result.err = "Invalid signature" <=> StripeComputed \notin V1Candidates
        ELSE v_result = Err("Invalid signature format")

\* verify has accepted a message whose first v1 candidate differs from the
\* computed HMAC and whose later one equals it.
C8_Witness ==
    /\ C8_Case
    /\ v_result.ok
    /\ \E i, j \in StripePairs("v1") :
          /\ i < j
          /\ \A k \in StripePairs("v1") : i <= k
          /\ PairValue(StripeHeaderParts[i]) # StripeComputed
          /\ PairValue(StripeHeaderParts[j]) = StripeComputed

\* The header is absent, has no t pair or has no v1 pair.
C9_Case ==
    StripeDone /\ (\/ ~HasHeader(v_msg, "stripe-signature")
                   \/ StripePairs("t") = {}
                   \/ StripePairs("v1") = {})

\* C9: verify returns an error, never success, when the stripe-signature
\* header is absent, has no 't' pair or has no 'v1' pair.
C9_MissingPartsAreErrors == C9_Case => (~v_result.ok /\ v_result.err \notin {"", "none"})

\* verify has rejected a Stripe event whose header is a lone t pair.
C9_Witness ==
    /\ StripeDone
    /\ HasHeader(v_msg, "stripe-signature")
    /\ StripePairs("t") # {}
    /\ StripePairs("v1") = {}
    /\ \A i \in 1..Len(StripeHeaderParts) : IsPair(StripeHeaderParts[i])
    /\ ParseStripeEvent(v_msg.body).ok
    /\ ~v_result.ok

\* The parts of the revolut-signature header of v_msg (which must have one).
RevolutHeaderParts == Split(v_msg.headers["revolut-signature"], ",")
BothRevolutHeaders ==
    HasHeader(v_msg, "revolut-signature") /\ HasHeader(v_msg, "revolut-request-timestamp")

\* Some version=code candidate carries the HMAC of its own payload.
RevolutCandidateMatches ==
    \E i \in 1..Len(RevolutHeaderParts) :
        /\ IsPair(RevolutHeaderParts[i])
        /\ PairValue(RevolutHeaderParts[i]) =
              RevolutSign(v_secret, Split(RevolutHeaderParts[i], "=")[1],
                          v_msg.headers["revolut-request-timestamp"], v_msg.body)

\* The missing-header half of C10.
MissingRevolutHeaderNamed ==
    /\ ~HasHeader(v_msg, "revolut-signature")
          => v_result = Err("Missing Revolut-Signature header")
    /\ (HasHeader(v_msg, "revolut-signature") /\ ~HasHeader(v_msg, "revolut-request-timestamp"))
          => v_result = Err("Missing Revolut-Request-Timestamp header")

\* C10 as stated: a missing header is named, and with both headers present
\* and no matching candidate the error is 'No valid signature found'.
C10_Original ==
    RevolutDone =>
        /\ MissingRevolutHeaderNamed
        /\ (BothRevolutHeaders /\ ~RevolutCandidateMatches)
              => v_result = Err("No valid signature found!")

\* C10: a missing header is named (the signature header when both are
\* missing); with both headers present and no matching candidate the error
\* is 'No valid signature found!' when every part of the signature header is
\* a version=code pair, and 'Invalid signature format' when a part has no '='.
C10_MissingHeaderNamed ==
    RevolutDone =>
        /\ MissingRevolutHeaderNamed
        /\ (BothRevolutHeaders /\ ~RevolutCandidateMatches)
              => v_result =
                    IF \A i \in 1..Len(RevolutHeaderParts) : IsPair(RevolutHeaderParts[i])
                        THEN Err("No valid signature found!")
                    ELSE Err("Invalid signature format")

\* verify has rejected a message with both headers and well-formed
\* candidates, none of which matches.
C10_Witness ==
    /\ RevolutDone
    /\ BothRevolutHeaders
    /\ ~RevolutCandidateMatches
    /\ \A i \in 1..Len(RevolutHeaderParts) : IsPair(RevolutHeaderParts[i])
    /\ v_result = Err("No valid signature found!")

\* The candidates of the signature header whose code is the HMAC of
\* "<own version>.<timestamp>.<body>", and the parts that are no pair.
RevolutMatching ==
    {i \in 1..Len(RevolutHeaderParts) :
        /\ IsPair(RevolutHeaderParts[i])
        /\ PairValue(RevolutHeaderParts[i]) =
              RevolutSign(v_secret, Split(RevolutHeaderParts[i], "=")[1],
                          v_msg.headers["revolut-request-timestamp"], v_msg.body)}
RevolutMalformed ==
    {i \in 1..Len(RevolutHeaderParts) : ~IsPair(RevolutHeaderParts[i])}

\* C11 as stated: the message is accepted if any candidate's code equals the
\* HMAC computed with that candidate's own version, and a code paired with
\* another version than the one it was computed under is not accepted.
C11_Original ==
    (RevolutDone /\ BothRevolutHeaders) => (v_result.ok <=> RevolutMatching # {})

\* C11: the message is accepted exactly if some candidate's code equals the
\* HMAC of "<its own version>.<timestamp>.<raw body>", no part before the
\* first such candidate lacks '=', and the body decodes as a Revolut event;
\* a code paired with another version than its own never counts.
C11_OwnVersion ==
    (RevolutDone /\ BothRevolutHeaders) =>
        (v_result.ok <=>
            /\ \E i \in RevolutMatching : \A j \in RevolutMalformed : i < j
            /\ ParseRevolutBody(v_msg.body).ok)

\* verify has accepted a message whose first candidate carries, under "v2",
\* the code computed for "v1", and whose later candidate is correctly paired.
C11_Witness ==
    /\ RevolutDone
    /\ BothRevolutHeaders
    /\ v_result.ok
    /\ \E j \in RevolutMatching :
          /\ j > 1
          /\ 1 \notin RevolutMatching
          /\ IsPair(RevolutHeaderParts[1])
          /\ PairKey(RevolutHeaderParts[1]) = "v2"
          /\ PairValue(RevolutHeaderParts[1]) =
                RevolutSign(v_secret, <<"v1">>,
                            v_msg.headers["revolut-request-timestamp"], v_msg.body)

BitvoraDone == v_pc = "done" /\ v_provider = "bitvora"

\* C12: verify_webhook succeeds if and only if the bitvora-signature header
\* is present and equals the hex HMAC-SHA256 of the raw body under the
\* secret; a body changed after signing makes it fail.
C12_SucceedsIffSignatureOfBody ==
    BitvoraDone =>
        /\ v_result.ok <=>
              /\ "bitvora-signature" \in DOMAIN v_msg.headers
              /\ Bytes(v_msg.headers["bitvora-signature"]) = HexHmac(v_secret, v_msg.body)
        /\ v_tampered = "body" => ~v_result.ok

\* verify_webhook has rejected a signed message whose body was changed.
C12_Witness ==
    /\ BitvoraDone
    /\ v_tampered = "body"
    /\ v_msg.body # v_signed.body
    /\ v_msg.headers["bitvora-signature"] = <<HexHmac(v_signed.secret, v_signed.body)>>
    /\ v_result = Err("No valid signature found!")

BitvoraHandled == v_pc = "handled" /\ v_provider = "bitvora"

\* The texts of the JSON decoding errors.
DecodeErrors == {"missing field id", "expected value", "unknown variant"}

\* The signature of v_msg is the one its provider's scheme asks for.
StripeSignatureValid ==
    /\ HasHeader(v_msg, "stripe-signature")
    /\ \A i \in 1..Len(StripeHeaderParts) : IsPair(StripeHeaderParts[i])
    /\ StripePairs("t") # {}
    /\ StripeComputed \in V1Candidates
RevolutSignatureValid ==
    /\ BothRevolutHeaders
    /\ \E i \in RevolutMatching : \A j \in RevolutMalformed : i < j
BitvoraSignatureValid ==
    /\ HasHeader(v_msg, "bitvora-signature")
    /\ Bytes(v_msg.headers["bitvora-signature"]) = HexHmac(v_secret, v_msg.body)

\* Valid signature and undecodable body: a decoding error; no valid
\* signature: an error that is no decoding error.
DecodeErrorOnlyIfSigned(valid, decodes) ==
    /\ (valid /\ ~decodes) => (~v_result.ok /\ v_result.err \in DecodeErrors)
    /\ ~valid => (~v_result.ok /\ v_result.err \notin DecodeErrors)

\* C13 for Stripe and Revolut.
C13_FiatProviders ==
    /\ StripeDone => DecodeErrorOnlyIfSigned(StripeSignatureValid,
                                             ParseStripeEvent(v_msg.body).ok)
    /\ RevolutDone => DecodeErrorOnlyIfSigned(RevolutSignatureValid,
                                              ParseRevolutBody(v_msg.body).ok)

\* C13: for each of the three providers, a validly signed message whose body
\* does not decode yields an error that differs from the bad-signature
\* error, and a message with a bad signature is never reported with the
\* decoding error.
C13_Original ==
    /\ C13_FiatProviders
    /\ BitvoraHandled => DecodeErrorOnlyIfSigned(BitvoraSignatureValid,
                                                 ParseBitvoraWebhook(v_msg.body).ok)

----------------------------------------------------------------------------
(* Properties of the Bitvora subscription *)

OnPath(v) == v.msg.endpoint = webhook_path

RECURSIVE MapUpdates(_)
\* The items the closure emits for a run of messages.
MapUpdates(vs) ==
    IF vs = <<>> THEN <<>>
    ELSE BitvoraFilterMap(OkItem(Head(vs))) \o MapUpdates(Tail(vs))

\* The messages receiver r has read so far, when it never lagged.
ReadSoFar(r) == SubSeq(After(r), 1, Len(got[r]))

UnknownKind(v) ==
    /\ OnPath(v)
    /\ \E e \in BitvoraStrings \ BitvoraWebhookEvent, x \in BitvoraStrings :
          Bytes(v.msg.body) = Bytes(BitvoraBody(e, x))

\* The number of items the stream has emitted when receiver r has taken i
\* items from the channel: one for each message on the path and one for
\* each lag error.
EmitCount(r, i) ==
    Cardinality({j \in 1..i : got[r][j].kind = "Lagged" \/ OnPath(got[r][j].val)})

----------------------------------------------------------------------------
(* Properties of the invoice subscriptions *)

\* A message on the node's path that does not decode or fails verification,
\* and one that is a settled deposit with a valid signature.
MalformedMessages ==
    {m \in StreamMessages :
        /\ m.endpoint = webhook_path
        /\ \/ ~ParseBitvoraWebhook(m.body).ok
           \/ ~HasHeader(m, "bitvora-signature")
           \/ Bytes(m.headers["bitvora-signature"]) # HexHmac(webhook_secret, m.body)}
WellFormedMessages ==
    {m \in StreamMessages \ MalformedMessages :
        /\ m.endpoint = webhook_path
        /\ \E x \in Bolt11Invoices :
              Bytes(m.body) = Bytes(BitvoraBody("deposit.lightning.completed", x))}
Malformed(v) == v.msg \in MalformedMessages
WellFormed(v) == v.msg \in WellFormedMessages

C17_Original ==
    l_pc = "ended" => (Len(l_out) > 0 /\ l_out[Len(l_out)].type = "Error")

\* C18: a failed lookup is no error of subscribe_invoices; the subscription
\* is made with settle_index 0 after a failed lookup and without a payment
\* hash, and with the settle_index of the invoice after a successful lookup.
C18_SettleIndexFallback ==
    /\ l_pc \in {"subscribed", "ended"} =>
          l_settle_index =
              IF l_call.from_payment_hash = None \/ l_call.lookup = None THEN 0
              ELSE l_call.lookup[1]
    /\ l_pc = "idle"
          => \A ph \in PaymentHashes : ENABLED subscribe_invoices(ph, None, TRUE)

\* The subscription was made, with settle_index 0, after a failed lookup.
C18_Witness ==
    /\ l_pc = "subscribed"
    /\ l_call.from_payment_hash # None
    /\ l_call.lookup = None
    /\ l_settle_index = 0

\* Positions of the steps named op in what the call has done.
ApiSteps(op) == {i \in DOMAIN a_log : a_log[i].op = op}

\* C19: a request built with a signing strategy configured has had the
\* strategy invoked exactly once, after the body was serialized and before
\* the request is sent, on the very body text the request carries (no text
\* for a request without body).
C19_SignedOnceOnSentBody ==
    (a_request # None /\ a_call.token_gen) =>
        /\ Cardinality(ApiSteps("generate_token")) = 1
        /\ \A i \in ApiSteps("generate_token") :
              /\ a_log[i].body = a_request[1].body
              /\ (a_call.body = None) <=> (a_log[i].body = None)
              /\ a_call.body # None =>
                    \E j \in ApiSteps("to_string") :
                        j < i /\ a_log[j].body = a_log[i].body
              /\ \A j \in ApiSteps("to_string") : j < i
              /\ \A j \in ApiSteps("execute") :
                    i < j /\ a_log[j].body = a_log[i].body

\* A signed request with a body has been sent.
C19_Witness ==
    /\ a_pc = "done"
    /\ a_call.token_gen
    /\ a_call.body # None
    /\ a_request # None
    /\ ApiSteps("execute") # {}

\* The response the call has received, if any.
ApiResponse == IF ApiSteps("response") = {} THEN None ELSE Some(a_log[Len(a_log)])

Carries(err, piece) == \E i \in DOMAIN err : err[i] = piece

IsDecodeError(err) ==
    \E path \in Paths, text \in ResponseTexts :
        Bytes(err) = Bytes(DecodeError(path, text))
IsStatusError(err) ==
    \E method \in Methods, path \in Paths, status \in Statuses, text \in ResponseTexts :
        Bytes(err) = Bytes(StatusError(method, path, status, text))

ApiTransportError ==
    IF ApiSteps("transport_error") = {} THEN None ELSE Some(a_log[Len(a_log)].e)

\* The text of the cause an error goes back to: the last source of its chain.
CauseText(e) == e[Len(e)]

\* C21: a call that met a transport failure returns an error that is no
\* HTTP-status error and carries the text of the underlying cause, and the
\* request was sent once.
C21_Original ==
    (a_pc = "done" /\ ApiTransportError # None) =>
        /\ ~a_result.ok
        /\ ~IsStatusError(a_result.err)
        /\ Carries(a_result.err, CauseText(ApiTransportError[1]))
        /\ Cardinality(ApiSteps("execute")) = 1

\* What holds of a transport failure: the error is no HTTP-status error,
\* carries the text of the transport error and of its direct source, and the
\* request was sent once; req_status and a failed read of the response text
\* keep the whole chain.
C21_ErrorAndDirectSource ==
    (a_pc = "done" /\ ApiTransportError # None) =>
        LET e == ApiTransportError[1]
        IN  /\ ~a_result.ok
            /\ ~IsStatusError(a_result.err)
            /\ ~IsDecodeError(a_result.err)
            /\ Carries(a_result.err, e[1])
            /\ Len(e) > 1 => Carries(a_result.err, e[2])
            /\ (a_call.kind = "req_status" \/ ApiSteps("status") # {}) => a_result.err = e
            /\ Cardinality(ApiSteps("execute")) = 1

\* The errors the call owes to its inputs, in the order build_req meets them.
ApiBuildErrors ==
    (IF UrlJoin(a_call.path) = None THEN <<JoinError>> ELSE <<>>)
    \o (IF a_call.body # None /\ ToJsonString(a_call.body[1]) = None
           THEN <<ToStringError>> ELSE <<>>)
    \o (IF a_call.token_gen /\ ~a_call.token_ok THEN <<TokenError>> ELSE <<>>)

\* C22: a call whose path cannot be joined, whose body cannot be serialized
\* or whose signing strategy fails returns that error (the first met), and
\* no request is built or sent.
C22_BuildErrorReturnedNothingSent ==
    (a_call.kind # "none" /\ ApiBuildErrors # <<>>) =>
        /\ a_pc = "failed"
        /\ ~a_result.ok
        /\ a_result.err = ApiBuildErrors[1]
        /\ a_request = None
        /\ ApiSteps("execute") = {}
        /\ \A e \in TransportErrors : ~ENABLED execute_failed(e)
        /\ \A status \in Statuses, text \in ResponseTexts : ~ENABLED execute(status, text)

\* The strategy was invoked on a serialized body and failed.
C22_Witness ==
    /\ a_pc = "failed"
    /\ a_call.token_gen /\ ~a_call.token_ok
    /\ a_call.body # None
    /\ ApiSteps("generate_token") # {}
    /\ a_result.err = TokenError

\* The bridges the initializer of WEBHOOK_BRIDGE has made.
StaticBridges == {i \in DOMAIN k_made : k_made[i] = "WEBHOOK_BRIDGE"}

\* The tasks that have used WEBHOOK_BRIDGE.
StaticUsers == {t \in Tasks : k_pc[t] = "static"}

\* C23 as stated: the process has at most one bridge, and all tasks that
\* publish or subscribe do so on one channel.
C23_Original ==
    /\ Len(k_made) <= 1
    /\ \A t, u \in Tasks : (k_ref[t] # 0 /\ k_ref[u] # 0) => k_ref[t] = k_ref[u]

\* C23: the initializer of WEBHOOK_BRIDGE runs at most once, not before a
\* first use, also when several tasks use it first at the same time; all
\* tasks that use WEBHOOK_BRIDGE use the one bridge it holds, and publish
\* and subscribe on the channel of that bridge only.
C23_StaticCreatedOnce ==
    /\ Cardinality(StaticBridges) <= 1
    /\ (k_state = "complete") <=> (StaticBridges # {})
    /\ (\A t \in Tasks : k_pc[t] \in {"start", "own"}) => k_state = "incomplete"
    /\ k_state = "complete" => k_bridge \in StaticBridges
    /\ Cardinality({t \in Tasks : k_pc[t] = "init"}) <= 1
    /\ \A t \in StaticUsers : k_ref[t] = k_bridge
    /\ \A i \in DOMAIN k_chan :
          (k_chan[i].senders \cup k_chan[i].listeners) \cap StaticUsers # {}
              => i = k_bridge

\* Two tasks use WEBHOOK_BRIDGE, one of them publishing and the other
\* subscribing on its channel.
C23_Witness ==
    \E t, u \in Tasks :
        /\ t # u
        /\ k_pc[t] = "static" /\ k_pc[u] = "static"
        /\ t \in k_chan[k_bridge].senders
        /\ u \in k_chan[k_bridge].listeners

\* C24: self - rhs is an error when the currencies differ, an error when
\* rhs is more than self (no wrap-around), and otherwise the exact difference
\* in the currency of both, 0 for equal amounts.
C24_SubExactOrError ==
    c_pc = "done" =>
        /\ c_lhs[1] # c_rhs[1] => (~c_out.ok /\ c_out.value = None)
        /\ (c_lhs[1] = c_rhs[1] /\ c_rhs[2] > c_lhs[2]) =>
              (~c_out.ok /\ c_out.value = None /\ c_out.err # "Currency doesnt match")
        /\ (c_lhs[1] = c_rhs[1] /\ c_rhs[2] <= c_lhs[2]) =>
              /\ c_out.ok
              /\ c_out.value[1][1] = c_lhs[1]
              /\ c_out.value[1][2] + c_rhs[2] = c_lhs[2]
              /\ c_lhs[2] = c_rhs[2] => c_out.value[1][2] = 0

\* A subtraction of a greater amount in the same currency was refused.
C24_Witness ==
    /\ c_pc = "done"
    /\ c_lhs[1] = c_rhs[1]
    /\ c_rhs[2] > c_lhs[2]
    /\ ~c_out.ok

\* The kind of update the subscription owes to an item of the gRPC stream:
\* for an invoice, by its state code alone.
LndKind(i) ==
    IF i.kind = "Err" THEN "Error"
    ELSE IF i.state = "SETTLED" THEN "Settled"
    ELSE IF i.state = "CREATED" THEN "Created"
    ELSE IF i.state = "CANCELED" THEN "Canceled"
    ELSE "Unknown"

\* C25: the LND subscription has emitted one update per item of the gRPC
\* stream, in the order of the items; the kind of each update is given by the
\* state code of the invoice alone (Settled, Open: Created, Canceled, any
\* other: Unknown) and is Error for a stream error; every update of an
\* invoice carries the hex of its r_hash, Settled the hex of the preimage
\* and no external id, Created the payment request.
C25_MapsByStateCode ==
    /\ Len(l_out) = Len(l_in)
    /\ \A k \in DOMAIN l_in :
          LET i == l_in[k]
              u == l_out[k]
          IN  /\ u.type = LndKind(i)
              /\ i.kind = "Ok" => u.payment_hash = HexEncode(i.r_hash)
              /\ i.kind = "Err" => u = InvoiceUpdateError(i.status)
              /\ u.type = "Settled" =>
                    (u.preimage = Some(HexEncode(i.r_preimage)) /\ u.external_id = None)
              /\ u.type = "Created" => u.payment_request = i.payment_request

\* Two settled invoices that differ in hash and preimage, a stream error
\* between them, gave Settled, Error, Settled.
C25_Witness ==
    /\ Len(l_in) = 3
    /\ l_in[1] = LndOk("SETTLED") /\ l_in[2].kind = "Err" /\ l_in[3] = LndOkBare("SETTLED")
    /\ l_out[1].type = "Settled" /\ l_out[2].type = "Error" /\ l_out[3].type = "Settled"

\* The bodies of a completed deposit to an invoice.
SettledBodyBytes ==
    {Bytes(BitvoraBody("deposit.lightning.completed", inv)) : inv \in Bolt11Invoices}

\* The messages that are on the node's path, carry the hex HMAC of their
\* body under the node's secret, and tell a completed deposit to an invoice.
SettledOwed ==
    {m \in SettleMessages \cup StreamMessages :
        /\ m.endpoint = webhook_path
        /\ "bitvora-signature" \in DOMAIN m.headers
        /\ Bytes(m.headers["bitvora-signature"]) = HexHmac(webhook_secret, m.body)
        /\ Bytes(m.body) \in SettledBodyBytes}

\* The invoice a message on the path pays.
PaidInvoice(m) ==
    CHOOSE inv \in Bolt11Invoices :
        Bytes(m.body) = Bytes(BitvoraBody("deposit.lightning.completed", inv))

\* The payment hashes the messages of SettledOwed give.
SettledHash == [m \in SettledOwed |-> Bolt11PaymentHash(PaidInvoice(m))]

\* C26: the Settled items on the subscription stream are those of the
\* messages read that are on the node's path, signed with the hex HMAC of
\* their body under the node's secret, of event deposit.lightning.completed
\* and with a recipient that is an invoice: as many as such messages were
\* read, each with the payment hash of one of them.
C26_SettledOnlyForVerifiedDeposit ==
    \A r \in Receivers :
        LET owed == {j \in DOMAIN got[r] :
                        got[r][j].kind = "Ok" /\ got[r][j].val.msg \in SettledOwed}
            settled == {k \in DOMAIN updates[r] : updates[r][k].type = "Settled"}
        IN  /\ Cardinality(settled) = Cardinality(owed)
            /\ \A k \in settled :
                  \E j \in owed : updates[r][k].payment_hash = SettledHash[got[r][j].val.msg]

\* The subscription has read a deposit signed under another secret, one
\* whose recipient is no invoice and a good one, and emitted one Settled.
C26_Witness ==
    /\ Len(got[1]) = 3
    /\ \A j \in 1..3 : got[1][j].kind = "Ok"
    /\ got[1][1].val.msg =
          BitvoraMessage(<<"other_secret">>, "deposit.lightning.completed", "lnbc1invoice")
    /\ got[1][2].val.msg =
          BitvoraMessage(webhook_secret, "deposit.lightning.completed", "not-an-invoice")
    /\ got[1][3].val.msg =
          BitvoraMessage(webhook_secret, "deposit.lightning.completed", "lnbc1other")
    /\ Cardinality({k \in DOMAIN updates[1] : updates[1][k].type = "Settled"}) = 1

\* The names of the provider calls cancel_order has made.
OrderOps == [k \in DOMAIN o_calls |-> o_calls[k].op]

IsPaymentIntentId == StartsWith(o_id, <<"p", "i", "_">>)
IsSessionId == ~IsPaymentIntentId /\ StartsWith(o_id, <<"c", "s", "_">>)

C28_FormatErrorByPosition ==
    /\ (StripeDone /\ HasHeader(v_msg, "stripe-signature")
            /\ \E i \in 1..Len(StripeHeaderParts) : ~IsPair(StripeHeaderParts[i]))
          => v_result = Err("Invalid signature format")
    /\ (RevolutDone /\ BothRevolutHeaders) =>
          (v_result = Err("Invalid signature format")
              <=> \E j \in RevolutMalformed : \A i \in RevolutMatching : j < i)

\* RevolutWebhookBody::verify has accepted a message whose header has a
\* part without '=' after the matching candidate.
C28_Witness ==
    /\ RevolutDone
    /\ BothRevolutHeaders
    /\ v_result.ok
    /\ \E j \in RevolutMalformed : \E i \in RevolutMatching : i < j

\* StripeWebhookEvent::verify has refused, for its format, a header with a
\* matching v1 candidate followed by a part without '='.
C28_StripeReached ==
    /\ StripeDone
    /\ HasHeader(v_msg, "stripe-signature")
    /\ StripePairs("t") # {}
    /\ StripeComputed \in V1Candidates
    /\ v_result = Err("Invalid signature format")

\* The sum of an attached list of discounts or taxes, 0 when none is attached.
Attached(list) == IF list = None THEN 0 ELSE SumSeq(list[1])

\* C29 as stated: after any builder calls total_amount is quantity *
\* unit_price_amount less the attached discounts (not below 0) plus the
\* attached taxes, whatever the order of the calls.
C29_Original ==
    i_pc = "built" =>
        i_item.total_amount =
            saturating_sub(i_item.quantity * i_item.unit_price_amount,
                           Attached(i_item.discounts))
                + Attached(i_item.taxes)

\* The failing case: taxes, then discounts, nothing overflowing; the total
\* is the discounted price and the attached taxes are not in it.
C29_TaxesLost ==
    /\ i_pc = "built"
    /\ i_calls = <<"simple", "with_taxes", "with_discounts">>
    /\ i_item.quantity * i_item.unit_price_amount + Attached(i_item.taxes) < AmountModulus
    /\ Attached(i_item.taxes) > 0
    /\ i_item.total_amount =
          saturating_sub(i_item.quantity * i_item.unit_price_amount,
                         Attached(i_item.discounts))

\* A payment stream was opened and pay_invoice has returned.
PayDone == p_pc = "done" /\ (p_in # <<>> \/ p_result.err # "status: Unavailable")

PayStreamFailed == p_in # <<>> /\ p_in[Len(p_in)].kind = "Err"

\* C30: pay_invoice returns success exactly if the stream gave at least one
\* update, ended without a stream error, and its last update has status 2;
\* a stream that ends without an update gives "No payment result received",
\* and a stream error gives an error whatever the earlier updates were.
C30_LastUpdateDecides ==
    p_pc = "done" =>
        /\ p_result.ok <=>
              (/\ p_in # <<>>
               /\ ~PayStreamFailed
               /\ p_in[Len(p_in)].update.status = 2)
        /\ p_result.ok => p_result.value[1].payment_hash
                              = HexEncode(p_in[Len(p_in)].update.payment_hash)
        /\ (PayDone /\ p_in = <<>>) => p_result.err = "No payment result received"
        /\ PayStreamFailed => ~p_result.ok

\* The stream gave an update of status 2, then one of another status, and
\* ended: pay_invoice returned an error.
C30_Witness ==
    /\ p_pc = "done"
    /\ Len(p_in) = 2
    /\ p_in[1].kind = "Ok" /\ p_in[1].update.status = 2
    /\ p_in[2].kind = "Ok" /\ p_in[2].update.status # 2
    /\ ~p_result.ok

====
